---- MODULE Spec2Model ----
(***************************************************************************)
(* The stdio-to-HTTP bridge of src/src/index.ts: the two request handlers  *)
(* of AirframeMCPBridge, forwardRequest and handleSSEStream.               *)
(*                                                                         *)
(* Texts are sequences of characters.  A token that the program only ever  *)
(* handles whole (a literal of the program, one JSON document, one half of *)
(* the "data: " marker) is written as one element of the sequence.         *)
(***************************************************************************)
EXTENDS Integers, Sequences, FiniteSets, TLC

\* Bounds of the model: requests issued by the bridge instance, lines of a stream body.
MaxRequests == 3
MaxLines == 3
\* arguments on the command line
MaxArgs == 4

MAX_RESPONSE_SIZE == 10 * 1024 * 1024
INTERNAL_ERROR == -32603
SLICE_END == 200

\* two handler invocations can be outstanding at once
Slots == {1, 2}
\* ids the remote may put in a message: every id the bridge can issue and one more
Ids == 1..(MaxRequests + 1)

Absent == "undefined"
NL == "\n"
SP == " "
DataMarker == <<"da", "ta: ">>

Min(a, b) == IF a < b THEN a ELSE b
Least(S) == CHOOSE x \in S : \A y \in S : x <= y

(***************************************************************************)
(* JSON values.  An object carries the six fields the bridge looks at; a   *)
(* missing field is Absent (id 0, error not present).                      *)
(***************************************************************************)
NoError == [present |-> FALSE, code |-> 0, message |-> <<>>]

ErrorObject(code, message) == [present |-> TRUE, code |-> code, message |-> message]

Obj(method, jsonrpc, id, params, result, error) ==
  [kind |-> "object", method |-> method, jsonrpc |-> jsonrpc, id |-> id,
   params |-> params, result |-> result, error |-> error]

JsonNull ==
  [kind |-> "null", method |-> Absent, jsonrpc |-> Absent, id |-> 0,
   params |-> Absent, result |-> Absent, error |-> NoError]

\* JSON values that are neither null nor an object: every property read gives undefined
JsonNumber ==
  [kind |-> "number", method |-> Absent, jsonrpc |-> Absent, id |-> 0,
   params |-> Absent, result |-> Absent, error |-> NoError]

JsonArray ==
  [kind |-> "array", method |-> Absent, jsonrpc |-> Absent, id |-> 0,
   params |-> Absent, result |-> Absent, error |-> NoError]

\* the value of a variable that holds no message (finalResult = null, nothing returned yet)
NoMessage ==
  [kind |-> "none", method |-> Absent, jsonrpc |-> Absent, id |-> 0,
   params |-> Absent, result |-> Absent, error |-> NoError]

ProgressMethod == "notifications/progress"

\* what the remote sends
ProgressParams == {"tok-1 1/2", "tok-1 2/2"}
Results == {"content:a", "content:b", "tools:[t1,t2]", "tools:[]", "{}"}
RemoteErrors == {"Bad request"}
REMOTE_CODE == -32600

\* params.progressToken of the params of a progress notification
TokenOf(params) == IF params \in ProgressParams THEN "tok-1" ELSE Absent

ProgressMsg(p) == Obj(ProgressMethod, "2.0", 0, p, Absent, NoError)
ResultMsg(id, r) == Obj(Absent, "2.0", id, Absent, r, NoError)
FailureMsg(id, e) == Obj(Absent, "2.0", id, Absent, Absent, ErrorObject(REMOTE_CODE, <<e>>))
\* an envelope with neither result nor error: {"jsonrpc":"2.0","id":1}
BareMsg(id) == Obj(Absent, "2.0", id, Absent, Absent, NoError)
\* an envelope with both: {"jsonrpc":"2.0","id":1,"result":...,"error":{...}}
BothMsg(id) ==
  Obj(Absent, "2.0", id, Absent, "content:a", ErrorObject(REMOTE_CODE, <<"Bad request">>))

\* a failure envelope of the remote whose message is twice as long as the bound of
\* the HTTP failure text
LongMessage == [i \in 1..(2 * SLICE_END) |-> "m"]
LongFailureMsg(id) ==
  Obj(Absent, "2.0", id, Absent, Absent, ErrorObject(REMOTE_CODE, LongMessage))

\* a message with the progress method and an id:
\* {"jsonrpc":"2.0","id":1,"method":"notifications/progress","params":{...},"result":...}
ProgressWithId(id, p) == Obj(ProgressMethod, "2.0", id, p, "content:b", NoError)

\* every JSON value that occurs on the wire
Universe ==
  {JsonNull, JsonNumber, JsonArray}
  \cup {ProgressMsg(p) : p \in ProgressParams}
  \cup {ResultMsg(i, r) : i \in Ids, r \in Results}
  \cup {FailureMsg(i, e) : i \in Ids, e \in RemoteErrors}
  \cup {BareMsg(i) : i \in Ids}
  \cup {BothMsg(i) : i \in Ids}
  \cup {LongFailureMsg(i) : i \in Ids}
  \cup {ProgressWithId(i, p) : i \in Ids, p \in ProgressParams}

\* the characters of a text as one string
RECURSIVE Concat(_)
Concat(text) ==
  IF text = <<>> THEN ""
  ELSE IF Len(text) = 1 THEN text[1]
  ELSE LET half == Len(text) \div 2
       IN Concat(SubSeq(text, 1, half)) \o Concat(SubSeq(text, half + 1, Len(text)))

\* JSON.stringify: the document of a value, one token
Stringify(m) ==
  IF m.kind = "null" THEN "null"
  ELSE IF m.kind = "number" THEN "5"
  ELSE IF m.kind = "array" THEN "[]"
  ELSE "{jsonrpc:" \o m.jsonrpc
       \o (IF m.id = 0 THEN "" ELSE ",id:" \o ToString(m.id))
       \o (IF m.method = Absent THEN "" ELSE ",method:" \o m.method)
       \o (IF m.params = Absent THEN "" ELSE ",params:" \o m.params)
       \o (IF m.result = Absent THEN "" ELSE ",result:" \o m.result)
       \o (IF m.error.present
           THEN ",error:{code:" \o ToString(m.error.code) \o ",message:"
                \o Concat(m.error.message) \o "}"
           ELSE "")
       \o "}"

\* String.prototype.trim
RECURSIVE Trim(_)
Trim(s) ==
  IF s = <<>> THEN s
  ELSE IF Head(s) = SP THEN Trim(Tail(s))
  ELSE IF s[Len(s)] = SP THEN Trim(SubSeq(s, 1, Len(s) - 1))
  ELSE s

\* JSON.parse: the value of a document, or a SyntaxError (ok = FALSE)
ParseTable ==
  [s \in {Stringify(m) : m \in Universe} |-> CHOOSE m \in Universe : Stringify(m) = s]

JSONparse(text) ==
  LET t == Trim(text) IN
  IF Len(t) = 1 /\ t[1] \in DOMAIN ParseTable
  THEN [ok |-> TRUE, value |-> ParseTable[t[1]]]
  ELSE [ok |-> FALSE, value |-> NoMessage]

\* String.prototype.split("\n")
RECURSIVE Split(_)
Split(s) ==
  IF \A i \in DOMAIN s : s[i] # NL THEN <<s>>
  ELSE LET k == CHOOSE i \in DOMAIN s : s[i] = NL /\ \A j \in 1..(i - 1) : s[j] # NL
       IN <<SubSeq(s, 1, k - 1)>> \o Split(SubSeq(s, k + 1, Len(s)))

\* String.prototype.slice(0, n)
Slice(s, n) == SubSeq(s, 1, Min(n, Len(s)))

\* line.startsWith("data: ")
StartsWithData(line) == Len(line) >= 2 /\ SubSeq(line, 1, 2) = DataMarker

\* contentType.includes("text/event-stream")
ContentTypes == {"application/json", "text/event-stream", "text/event-stream; charset=utf-8", ""}
IncludesEventStream(ct) == ct \in {"text/event-stream", "text/event-stream; charset=utf-8"}

(***************************************************************************)
(* Thrown values: an Error with a message, or any other value.             *)
(***************************************************************************)
ErrorValue(message) == [isError |-> TRUE, text |-> message]
NonError(text) == [isError |-> FALSE, text |-> text]
NoThrow == [isError |-> FALSE, text |-> <<>>]

\* error instanceof Error ? error.message : String(error)
\* String(value): a string is itself, an Error is its name and its message
String(value) == IF value.isError THEN <<"Error: ">> \o value.text ELSE value.text

ErrorMessage(error) == IF error.isError THEN error.text ELSE String(error)

NetworkError == ErrorValue(<<"fetch failed">>)
TimeoutError == ErrorValue(<<"The operation was aborted due to timeout">>)
StringThrown == NonError(<<"string error">>)
Terminated == ErrorValue(<<"terminated">>)
SyntaxError == ErrorValue(<<"Unexpected token in JSON">>)
NullTypeError == ErrorValue(<<"Cannot read properties of null (reading 'error')">>)

\* (mutation: the envelope does not carry the id of the request)
ErrorEnvelopeWithoutId(id, message) ==
  Obj(Absent, "2.0", 0, Absent, Absent, ErrorObject(INTERNAL_ERROR, message))

\* the envelope that the catch clause of forwardRequest builds
ErrorEnvelope(id, message) ==
  Obj(Absent, "2.0", id, Absent, Absent, ErrorObject(INTERNAL_ERROR, message))

(***************************************************************************)
(* The two request handlers, from the envelope forwardRequest returned.    *)
(***************************************************************************)
NoOutcome ==
  [status |-> "pending", shape |-> "none", tools |-> <<>>, content |-> <<>>,
   result |-> Absent, message |-> <<>>]

Raised(message) == [NoOutcome EXCEPT !.status = "raised", !.message = message]

HasTools(result) == result \in {"tools:[t1,t2]", "tools:[]"}
ToolsOf(result) == IF result = "tools:[t1,t2]" THEN <<"t1", "t2">> ELSE <<>>

TextBlock(text) == [type |-> "text", text |-> text]

\* (mutation: a failure envelope gives an empty tool list instead of raising)
ListToolsReplySwallowsFailure(response) ==
  IF response.kind = "null" THEN Raised(NullTypeError.text)
  ELSE [NoOutcome EXCEPT !.status = "returned", !.shape = "tools",
                         !.tools = IF HasTools(response.result)
                                   THEN ToolsOf(response.result) ELSE <<>>]

\* (mutation: result?.tools is returned without the `|| []`)
ListToolsReplyWithoutDefault(response) ==
  IF response.kind = "null" THEN Raised(NullTypeError.text)
  ELSE IF response.error.present THEN Raised(response.error.message)
  ELSE IF HasTools(response.result)
  THEN [NoOutcome EXCEPT !.status = "returned", !.shape = "tools",
                         !.tools = ToolsOf(response.result)]
  ELSE [NoOutcome EXCEPT !.status = "returned", !.shape = "undefined"]

ListToolsReply(response) ==
  IF response.kind = "null" THEN Raised(NullTypeError.text)
  ELSE IF response.error.present THEN Raised(response.error.message)
  ELSE [NoOutcome EXCEPT !.status = "returned", !.shape = "tools",
                         !.tools = IF HasTools(response.result)
                                   THEN ToolsOf(response.result) ELSE <<>>]

\* (mutation: a failure envelope is raised, as the list handler does)
CallToolReplyRaises(response) ==
  IF response.kind = "null" THEN Raised(NullTypeError.text)
  ELSE IF response.error.present THEN Raised(response.error.message)
  ELSE [NoOutcome EXCEPT !.status = "returned", !.shape = "result",
                         !.result = response.result]

\* (mutation: the result is rewritten as a text block)
CallToolReplyRewrites(response) ==
  IF response.kind = "null" THEN Raised(NullTypeError.text)
  ELSE IF response.error.present
  THEN [NoOutcome EXCEPT !.status = "returned", !.shape = "content",
                         !.content = <<TextBlock(<<"Error: ">> \o response.error.message)>>]
  ELSE [NoOutcome EXCEPT !.status = "returned", !.shape = "content",
                         !.content = <<TextBlock(<<response.result>>)>>]

CallToolReply(response) ==
  IF response.kind = "null" THEN Raised(NullTypeError.text)
  ELSE IF response.error.present
  THEN [NoOutcome EXCEPT !.status = "returned", !.shape = "content",
                         !.content = <<TextBlock(<<"Error: ">> \o response.error.message)>>]
  ELSE [NoOutcome EXCEPT !.status = "returned", !.shape = "result",
                         !.result = response.result]

HandlerReply(method, response) ==
  IF method = "tools/list" THEN ListToolsReply(response) ELSE CallToolReply(response)

(***************************************************************************)
(* handleSSEStream: the body of the for loop over the complete lines of a  *)
(* chunk, run up to the next await (the relay of a progress notification)  *)
(* or to the end of the lines.                                             *)
(***************************************************************************)
LoopState(pending, finalResult, notify, params, failed) ==
  [pending |-> pending, finalResult |-> finalResult, notify |-> notify,
   params |-> params, failed |-> failed]

\* (mutation: the id of the message is not compared)
IsFinalResultOfAnyId(message, id) == message.jsonrpc = "2.0"

\* message.jsonrpc === "2.0" && message.id === request.id
IsFinalResult(message, id) == message.jsonrpc = "2.0" /\ message.id = id

\* (mutation: a result already captured is kept)
CaptureFirst(finalResult, message) ==
  IF finalResult.kind = "none" THEN message ELSE finalResult

\* finalResult = message
Capture(finalResult, message) == message

\* (mutations of the loop: "break" leaves the loop once a final result is captured,
\* "abort" leaves it at a line that fails to parse, "stray" at a message that is
\* neither a notification nor the final result; "empty" has it give an empty payload
\* to JSON.parse, which fails)
RECURSIVE RunLinesLeaving(_, _, _, _, _)
RunLinesLeaving(lines, finalResult, id, failed, how) ==
  IF lines = <<>> THEN LoopState(<<>>, finalResult, FALSE, Absent, failed)
  ELSE LET line == Head(lines)
           rest == Tail(lines)
       IN IF ~StartsWithData(line) THEN RunLinesLeaving(rest, finalResult, id, failed, how)
          ELSE LET data == Trim(SubSeq(line, 3, Len(line)))
                   parsed == JSONparse(data)
                   message == parsed.value
               IN IF data = <<>>
                  THEN IF how = "empty"
                       THEN RunLinesLeaving(rest, finalResult, id, failed + 1, how)
                       ELSE RunLinesLeaving(rest, finalResult, id, failed, how)
                  ELSE IF ~parsed.ok \/ message.kind = "null"
                  THEN IF how = "abort"
                       THEN LoopState(<<>>, finalResult, FALSE, Absent, failed + 1)
                       ELSE RunLinesLeaving(rest, finalResult, id, failed + 1, how)
                  ELSE IF message.method = ProgressMethod
                  THEN LoopState(rest, finalResult, TRUE, message.params, failed)
                  ELSE IF IsFinalResult(message, id)
                  THEN IF how = "break"
                       THEN LoopState(<<>>, Capture(finalResult, message), FALSE, Absent, failed)
                       ELSE RunLinesLeaving(rest, Capture(finalResult, message), id, failed, how)
                  ELSE IF how = "stray"
                  THEN LoopState(<<>>, finalResult, FALSE, Absent, failed)
                  ELSE RunLinesLeaving(rest, finalResult, id, failed, how)

RunLinesBreakAtResult(lines, finalResult, id, failed) ==
  RunLinesLeaving(lines, finalResult, id, failed, "break")

RunLinesAbortAtBadLine(lines, finalResult, id, failed) ==
  RunLinesLeaving(lines, finalResult, id, failed, "abort")

RunLinesParsesEmpty(lines, finalResult, id, failed) ==
  RunLinesLeaving(lines, finalResult, id, failed, "empty")

RunLinesStopAtStray(lines, finalResult, id, failed) ==
  RunLinesLeaving(lines, finalResult, id, failed, "stray")

RECURSIVE RunLines(_, _, _, _)
RunLines(lines, finalResult, id, failed) ==
  IF lines = <<>> THEN LoopState(<<>>, finalResult, FALSE, Absent, failed)
  ELSE LET line == Head(lines)
           rest == Tail(lines)
       IN IF ~StartsWithData(line) THEN RunLines(rest, finalResult, id, failed)
          ELSE LET data == Trim(SubSeq(line, 3, Len(line)))
                   parsed == JSONparse(data)
                   message == parsed.value
               IN IF data = <<>> THEN RunLines(rest, finalResult, id, failed)
                  ELSE IF ~parsed.ok \/ message.kind = "null"
                  THEN RunLines(rest, finalResult, id, failed + 1)
                  ELSE IF message.method = ProgressMethod
                  THEN LoopState(rest, finalResult, TRUE, message.params, failed)
                  ELSE IF IsFinalResult(message, id)
                  THEN RunLines(rest, Capture(finalResult, message), id, failed)
                  ELSE RunLines(rest, finalResult, id, failed)

(***************************************************************************)
(* What the remote answers to the request with the given id.               *)
(***************************************************************************)
\* sent and open record what the remote put in a stream body: the events, one per
\* line, and whether the last line lacks its newline
Response(status, statusText, contentType, hasBody, body, size) ==
  [status |-> status, statusText |-> statusText, contentType |-> contentType,
   hasBody |-> hasBody, body |-> body, size |-> size, sent |-> <<>>, open |-> FALSE]

NoResponse == Response(0, <<>>, "", FALSE, <<>>, 0)

\* response.ok
Ok(response) == response.status >= 200 /\ response.status <= 299

\* an event that is no JSON document
Garbage ==
  [kind |-> "garbage", method |-> Absent, jsonrpc |-> Absent, id |-> 0,
   params |-> Absent, result |-> Absent, error |-> NoError]

\* the line of an event: `data: ` and its document
DataLine(event) ==
  DataMarker \o <<IF event.kind = "garbage" THEN "{invalid json}" ELSE Stringify(event)>>

\* the lines of an event stream, each followed by a newline but, when `open`, the last
RECURSIVE Join(_, _)
Join(lines, open) ==
  IF lines = <<>> THEN <<>>
  ELSE IF Len(lines) = 1 /\ open THEN Head(lines)
  ELSE Head(lines) \o <<NL>> \o Join(Tail(lines), open)

SeqsUpTo(S, n) == UNION {[1..k -> S] : k \in 0..n}

EventStream(events, open) ==
  [Response(200, <<"O", "K">>, "text/event-stream", TRUE,
            Join([i \in DOMAIN events |-> DataLine(events[i])], open), 0)
   EXCEPT !.sent = events, !.open = open]

Document(text, size) == Response(200, <<"O", "K">>, "application/json", TRUE, text, size)

HttpError(status, body) ==
  Response(status, <<"d", "o", "w", "n">>, "text/plain", TRUE, body, Len(body))

LongBody == [i \in 1..(SLICE_END + 1) |-> IF i <= SLICE_END THEN "x" ELSE "y"]

(***************************************************************************)
(* Strings given on the command line.  A string is its text and what       *)
(* `new URL` makes of it: whether it parses, its scheme as written and its *)
(* host as written (a name, an IPv4 address, an IPv6 address or none).     *)
(***************************************************************************)
NoHost == [kind |-> "none", chars |-> <<>>, octets |-> <<>>]
NameHost(chars) == [kind |-> "name", chars |-> chars, octets |-> <<>>]
Ipv4Host(octets) == [kind |-> "ipv4", chars |-> <<>>, octets |-> octets]
Ipv6Host(chars) == [kind |-> "ipv6", chars |-> chars, octets |-> <<>>]

\* a string that `new URL` rejects
Plain(text) == [text |-> text, wellFormed |-> FALSE, scheme |-> <<>>, host |-> NoHost]
\* the string scheme://host/mcp
UrlString(scheme, host) == [text |-> "url", wellFormed |-> TRUE, scheme |-> scheme, host |-> host]

UpperCase ==
  <<"A", "B", "C", "D", "E", "F", "G", "H", "I", "J", "K", "L", "M",
    "N", "O", "P", "Q", "R", "S", "T", "U", "V", "W", "X", "Y", "Z">>
LowerCase ==
  <<"a", "b", "c", "d", "e", "f", "g", "h", "i", "j", "k", "l", "m",
    "n", "o", "p", "q", "r", "s", "t", "u", "v", "w", "x", "y", "z">>

\* String.prototype.toLowerCase
ToLowerCase(chars) ==
  [i \in DOMAIN chars |->
     IF \E k \in DOMAIN UpperCase : UpperCase[k] = chars[i]
     THEN LowerCase[CHOOSE k \in DOMAIN UpperCase : UpperCase[k] = chars[i]]
     ELSE chars[i]]

\* the decimal digits of a number, as the URL serializer writes an octet
RECURSIVE Decimal(_)
Decimal(n) == IF n < 10 THEN <<ToString(n)>> ELSE Decimal(n \div 10) \o <<ToString(n % 10)>>

Dotted(octets) ==
  Decimal(octets[1]) \o <<".">> \o Decimal(octets[2]) \o <<".">>
  \o Decimal(octets[3]) \o <<".">> \o Decimal(octets[4])

\* parsed.hostname: a name in lower case, an IPv4 address in dotted decimal, an IPv6
\* address in brackets
Hostname(host) ==
  IF host.kind = "ipv4" THEN Dotted(host.octets)
  ELSE IF host.kind = "ipv6" THEN <<"[">> \o ToLowerCase(host.chars) \o <<"]">>
  ELSE ToLowerCase(host.chars)

\* new URL(url): throws (ok = FALSE) or gives protocol and hostname
NewURL(url) ==
  [ok |-> url.wellFormed,
   protocol |-> ToLowerCase(url.scheme) \o <<":">>,
   hostname |-> Hostname(url.host)]

StartsWith(s, prefix) == Len(s) >= Len(prefix) /\ SubSeq(s, 1, Len(prefix)) = prefix
EndsWith(s, suffix) ==
  Len(s) >= Len(suffix) /\ SubSeq(s, Len(s) - Len(suffix) + 1, Len(s)) = suffix

IsDigit(ch) == ch \in {"0", "1", "2", "3", "4", "5", "6", "7", "8", "9"}

\* (mutation: the second alternative of the pattern is 2[0-8])
Matches172Short(host) ==
  /\ StartsWith(host, <<"1", "7", "2", ".">>)
  /\ Len(host) >= 7
  /\ \/ host[5] = "1" /\ host[6] \in {"6", "7", "8", "9"}
     \/ host[5] = "2" /\ host[6] \in {"0", "1", "2", "3", "4", "5", "6", "7", "8"}
     \/ host[5] = "3" /\ host[6] \in {"0", "1"}
  /\ host[7] = "."

\* /^172\.(1[6-9]|2\d|3[01])\./.test(host)
Matches172(host) ==
  /\ StartsWith(host, <<"1", "7", "2", ".">>)
  /\ Len(host) >= 7
  /\ \/ host[5] = "1" /\ host[6] \in {"6", "7", "8", "9"}
     \/ host[5] = "2" /\ IsDigit(host[6])
     \/ host[5] = "3" /\ host[6] \in {"0", "1"}
  /\ host[7] = "."

\* the value validateServerUrl returns: null or a reason
Null == [isNull |-> TRUE, text |-> ""]
Reason(text) == [isNull |-> FALSE, text |-> text]

NotAValidUrl == Reason("--server-url is not a valid URL")
MustUseHttp == Reason("--server-url must use http or https")
MustNotBeInternal == Reason("--server-url must not point to internal/private addresses")

\* (mutation: the test of the 10. prefix is missing)
IsBlockedHostWithoutTen(host) ==
  \/ host = <<"l", "o", "c", "a", "l", "h", "o", "s", "t">>
  \/ host = <<"1", "2", "7", ".", "0", ".", "0", ".", "1">>
  \/ host = <<"0", ".", "0", ".", "0", ".", "0">>
  \/ host = <<"[", ":", ":", "1", "]">>
  \/ host = <<"1", "6", "9", ".", "2", "5", "4", ".", "1", "6", "9", ".", "2", "5", "4">>
  \/ EndsWith(host, <<".", "i", "n", "t", "e", "r", "n", "a", "l">>)
  \/ StartsWith(host, <<"1", "9", "2", ".", "1", "6", "8", ".">>)
  \/ Matches172(host)

\* the host tests of validateServerUrl
IsBlockedHost(host) ==
  \/ host = <<"l", "o", "c", "a", "l", "h", "o", "s", "t">>
  \/ host = <<"1", "2", "7", ".", "0", ".", "0", ".", "1">>
  \/ host = <<"0", ".", "0", ".", "0", ".", "0">>
  \/ host = <<"[", ":", ":", "1", "]">>
  \/ host = <<"1", "6", "9", ".", "2", "5", "4", ".", "1", "6", "9", ".", "2", "5", "4">>
  \/ EndsWith(host, <<".", "i", "n", "t", "e", "r", "n", "a", "l">>)
  \/ StartsWith(host, <<"1", "0", ".">>)
  \/ StartsWith(host, <<"1", "9", "2", ".", "1", "6", "8", ".">>)
  \/ Matches172(host)

\* (mutation: the host is tested before the scheme)
validateServerUrlHostFirst(url) ==
  LET parsed == NewURL(url) IN
  IF ~parsed.ok THEN NotAValidUrl
  ELSE IF IsBlockedHost(ToLowerCase(parsed.hostname)) THEN MustNotBeInternal
  ELSE IF parsed.protocol # <<"h", "t", "t", "p", "s", ":">>
          /\ parsed.protocol # <<"h", "t", "t", "p", ":">>
  THEN MustUseHttp
  ELSE Null

validateServerUrl(url) ==
  LET parsed == NewURL(url) IN
  IF ~parsed.ok THEN NotAValidUrl
  ELSE IF parsed.protocol # <<"h", "t", "t", "p", "s", ":">>
          /\ parsed.protocol # <<"h", "t", "t", "p", ":">>
  THEN MustUseHttp
  ELSE IF IsBlockedHost(ToLowerCase(parsed.hostname)) THEN MustNotBeInternal
  ELSE Null

(***************************************************************************)
(* parseCliArgs.  Its outcome: an object, null (help), or a thrown Error.  *)
(***************************************************************************)
EmptyString == Plain("")
DEFAULT_SERVER_URL ==
  UrlString(<<"h", "t", "t", "p", "s">>,
            NameHost(<<"m", "c", "p", ".", "a", "i", "r", "f", "r", "a", "m", "e", ".", "a", "i">>))
VALID_API_KEY == Plain("af_test_key_123")
INVALID_API_KEY == Plain("bad_key_no_prefix")

\* apiKey.startsWith("af_")
StartsWithAf(key) == key.text \in {"af_test_key_123"}

Parsed(kind, apiKey, serverUrl, message) ==
  [kind |-> kind, apiKey |-> apiKey, serverUrl |-> serverUrl, message |-> message,
   warned |-> FALSE]

NotParsed == Parsed("none", EmptyString, EmptyString, "")

\* (mutation of the loop: with `validated` false the value of --server-url is taken
\* as it is)
RECURSIVE ParseLoopWith(_, _, _, _, _)
ParseLoopWith(args, i, apiKey, serverUrl, validated) ==
  IF i > Len(args) THEN Parsed("ok", apiKey, serverUrl, "")
  ELSE IF args[i].text = "--api-key" /\ i + 1 <= Len(args)
  THEN ParseLoopWith(args, i + 2, args[i + 1], serverUrl, validated)
  ELSE IF args[i].text = "--server-url" /\ i + 1 <= Len(args)
  THEN LET raw == args[i + 1]
           error == validateServerUrl(raw)
       IN IF validated /\ ~error.isNull
          THEN Parsed("throw", apiKey, serverUrl, "Error: " \o error.text)
          ELSE ParseLoopWith(args, i + 2, apiKey, raw, validated)
  ELSE IF args[i].text \in {"--help", "-h"}
  THEN Parsed("null", apiKey, serverUrl, "")
  ELSE ParseLoopWith(args, i + 1, apiKey, serverUrl, validated)

ParseLoopUnvalidated(args, i, apiKey, serverUrl) ==
  ParseLoopWith(args, i, apiKey, serverUrl, FALSE)

\* the for loop of parseCliArgs from args[i] on (i counts from 1)
RECURSIVE ParseLoop(_, _, _, _)
ParseLoop(args, i, apiKey, serverUrl) ==
  IF i > Len(args) THEN Parsed("ok", apiKey, serverUrl, "")
  ELSE IF args[i].text = "--api-key" /\ i + 1 <= Len(args)
  THEN ParseLoop(args, i + 2, args[i + 1], serverUrl)
  ELSE IF args[i].text = "--server-url" /\ i + 1 <= Len(args)
  THEN LET raw == args[i + 1]
           error == validateServerUrl(raw)
       IN IF ~error.isNull
          THEN Parsed("throw", apiKey, serverUrl, "Error: " \o error.text)
          ELSE ParseLoop(args, i + 2, apiKey, raw)
  ELSE IF args[i].text \in {"--help", "-h"}
  THEN Parsed("null", apiKey, serverUrl, "")
  ELSE ParseLoop(args, i + 1, apiKey, serverUrl)

\* (mutation: the test of the empty key is missing)
parseCliArgsKeyOptional(args) ==
  LET r == ParseLoop(args, 1, EmptyString, DEFAULT_SERVER_URL) IN
  IF r.kind # "ok" THEN r
  ELSE [r EXCEPT !.warned = ~StartsWithAf(r.apiKey)]

parseCliArgs(args) ==
  LET r == ParseLoop(args, 1, EmptyString, DEFAULT_SERVER_URL) IN
  IF r.kind # "ok" THEN r
  ELSE IF r.apiKey.text = ""
  THEN Parsed("throw", r.apiKey, r.serverUrl, "Error: --api-key is required")
  ELSE [r EXCEPT !.warned = ~StartsWithAf(r.apiKey)]

(***************************************************************************)
(* State.  calls[c] is one invocation of a request handler: the locals of  *)
(* the handler, of forwardRequest and of handleSSEStream, and what the     *)
(* local transport has seen of it.                                         *)
(***************************************************************************)
\* proc is the process: where main stands, its arguments and what it has made of them
VARIABLES requestIdCounter, calls, issued, proc

vars == <<requestIdCounter, calls, issued, proc>>

NoRequest ==
  [jsonrpc |-> "2.0", id |-> 0, method |-> Absent,
   params |-> [name |-> Absent, arguments |-> Absent, progressToken |-> Absent]]

InitCall ==
  [pc |-> "idle",
   inbound |-> Absent,        \* request.params._meta?.progressToken of the local request
   posts |-> 0,               \* calls of fetch
   target |-> EmptyString,    \* the URL given to fetch
   header |-> EmptyString,    \* the X-API-Key header given to fetch
   request |-> NoRequest,
   response |-> NoResponse,
   wire |-> <<>>,             \* bytes of the body not yet read
   locked |-> FALSE,          \* the reader holds the lock of the body
   releases |-> 0,            \* calls of reader.releaseLock()
   buffer |-> <<>>,
   finalResult |-> NoMessage,
   pending |-> <<>>,          \* lines of the current chunk not yet looked at
   relayed |-> <<>>,          \* params of the notifications given to server.notification
   relayFailed |-> FALSE,     \* server.notification rejected at least once
   parseFailures |-> 0,       \* "Failed to parse SSE data" lines logged
   readAttempted |-> FALSE,   \* reader.read() was called
   caught |-> NoThrow,        \* the value the catch clause of forwardRequest got
   cause |-> "none",          \* where that value was thrown
   dropped |-> NoMessage,     \* finalResult of handleSSEStream when the value was thrown
   logged |-> <<>>,           \* what the catch clause of forwardRequest wrote to stderr
   envelope |-> NoMessage,    \* what forwardRequest returned
   outcome |-> NoOutcome]     \* what the handler returned or raised

NoProc ==
  [pc |-> "start",
   args |-> <<>>,             \* process.argv.slice(2)
   url |-> Plain(""),         \* the argument of a call of validateServerUrl
   reason |-> Null,           \* what that call returned
   parsed |-> NotParsed,      \* what parseCliArgs returned or threw
   exitCode |-> -1,           \* the argument of process.exit
   stdout |-> <<>>,           \* what console.log wrote
   stderr |-> <<>>,           \* what console.error wrote at startup
   bridges |-> 0,             \* bridges constructed
   apiKey |-> EmptyString,    \* this.apiKey
   serverUrl |-> EmptyString] \* this.serverUrl

\* new AirframeMCPBridge(apiKey, serverUrl) and bridge.run()
Started(proc0, apiKey, serverUrl) ==
  [proc0 EXCEPT !.pc = "running", !.bridges = @ + 1,
                !.apiKey = apiKey, !.serverUrl = serverUrl,
                !.stderr = Append(@, "[Airframe MCP] Bridge started successfully")]

\* the bridge as the tests construct it
Running == Started(NoProc, VALID_API_KEY, DEFAULT_SERVER_URL)

Init ==
  /\ requestIdCounter = 0
  /\ calls = [c \in Slots |-> InitCall]
  /\ issued = <<>>
  /\ proc = Running

\* forwardRequest returns `envelope` and the handler maps it to its reply
\* (the locals of forwardRequest and handleSSEStream end with the call)
Complete(call, envelope) ==
  [call EXCEPT !.pc = "done", !.envelope = envelope,
               !.outcome = HandlerReply(call.request.method, envelope),
               !.wire = <<>>, !.buffer = <<>>, !.pending = <<>>,
               !.finalResult = NoMessage]

\* console.error(`[Airframe MCP] Error: ${errorMessage}`)
LOG_PREFIX == <<"[Airframe MCP] Error: ">>

\* (mutation: the catch clause posts the request once more before it gives up)
CatchRetries(call, error, cause) ==
  Complete([call EXCEPT !.caught = error, !.cause = cause, !.posts = @ + 1,
                        !.dropped = call.finalResult,
                        !.logged = Append(@, LOG_PREFIX \o ErrorMessage(error))],
           ErrorEnvelope(call.request.id, ErrorMessage(error)))

\* (mutation: the catch clause builds the envelope without writing the log line)
CatchWithoutLog(call, error, cause) ==
  Complete([call EXCEPT !.caught = error, !.cause = cause, !.dropped = call.finalResult],
           ErrorEnvelope(call.request.id, ErrorMessage(error)))

\* the catch clause of forwardRequest
Catch(call, error, cause) ==
  Complete([call EXCEPT !.caught = error, !.cause = cause, !.dropped = call.finalResult,
                        !.logged = Append(@, LOG_PREFIX \o ErrorMessage(error))],
           ErrorEnvelope(call.request.id, ErrorMessage(error)))

\* a progress token is a string or an integer; the integer n is written "#n"
NumberToken(n) == "#" \o ToString(n)

\* request.params._meta?.progressToken || crypto.randomUUID()
\* (undefined, the empty string and the number 0 are falsy)
Truthy(token) == token \notin {Absent, "", NumberToken(0)}
UUIDs == {"uuid-1"}
ToolNames == {"search_products"}

\* (mutation: the id is read but the counter is not advanced)
IssueWithoutIncrement(c, method, params, inbound) ==
  /\ requestIdCounter' = requestIdCounter
  /\ calls' = [calls EXCEPT ![c].pc = "fetch", ![c].inbound = inbound,
                            ![c].posts = @ + 1, ![c].target = proc.serverUrl,
                            ![c].header = proc.apiKey,
                            ![c].request = [jsonrpc |-> "2.0", id |-> requestIdCounter + 1,
                                            method |-> method, params |-> params]]
  /\ issued' = Append(issued, requestIdCounter + 1)
  /\ UNCHANGED proc

\* ++this.requestIdCounter, the outbound envelope, the call of fetch
Issue(c, method, params, inbound) ==
  /\ requestIdCounter' = requestIdCounter + 1
  /\ calls' = [calls EXCEPT ![c].pc = "fetch", ![c].inbound = inbound,
                            ![c].posts = @ + 1, ![c].target = proc.serverUrl,
                            ![c].header = proc.apiKey,
                            ![c].request = [jsonrpc |-> "2.0", id |-> requestIdCounter + 1,
                                            method |-> method, params |-> params]]
  /\ issued' = Append(issued, requestIdCounter + 1)
  /\ UNCHANGED proc

ListTools(c) ==
  /\ calls[c].pc = "idle"
  /\ requestIdCounter < MaxRequests
  /\ Issue(c, "tools/list", [name |-> Absent, arguments |-> Absent, progressToken |-> Absent],
           Absent)

CallTool(c, tokens) ==
  /\ calls[c].pc = "idle"
  /\ requestIdCounter < MaxRequests
  /\ \E name \in ToolNames, token \in tokens, uuid \in UUIDs :
       Issue(c, "tools/call",
             [name |-> name, arguments |-> "{}",
              progressToken |-> IF Truthy(token) THEN token ELSE uuid],
             token)

\* fetch rejects: network failure, a thrown non-Error, the timeout signal
FetchReject(c) ==
  /\ calls[c].pc = "fetch"
  /\ \E t \in {<<NetworkError, "network">>, <<StringThrown, "nonerror">>,
               <<TimeoutError, "timeout">>} :
       calls' = [calls EXCEPT ![c] = Catch(@, t[1], t[2])]
  /\ UNCHANGED <<requestIdCounter, issued, proc>>

\* (mutation: the content-type is looked at before the status)
FetchResolveStreamFirst(c, responses) ==
  /\ calls[c].pc = "fetch"
  /\ \E r \in responses :
       LET call == [calls[c] EXCEPT !.response = r] IN
       calls' = [calls EXCEPT ![c] =
         IF IncludesEventStream(r.contentType)
         THEN IF ~r.hasBody
              THEN Catch(call, ErrorValue(<<"No response body">>), "nobody")
              ELSE [call EXCEPT !.pc = "read", !.locked = TRUE, !.wire = r.body]
         ELSE IF ~Ok(r) THEN [call EXCEPT !.pc = "errtext"]
         ELSE [call EXCEPT !.pc = "doctext"]]
  /\ UNCHANGED <<requestIdCounter, issued, proc>>

\* fetch resolves with a response; the response is classified
FetchResolve(c, responses) ==
  /\ calls[c].pc = "fetch"
  /\ \E r \in responses :
       LET call == [calls[c] EXCEPT !.response = r] IN
       calls' = [calls EXCEPT ![c] =
         IF ~Ok(r) THEN [call EXCEPT !.pc = "errtext"]
         ELSE IF IncludesEventStream(r.contentType)
         THEN IF ~r.hasBody
              THEN Catch(call, ErrorValue(<<"No response body">>), "nobody")
              ELSE [call EXCEPT !.pc = "read", !.locked = TRUE, !.wire = r.body]
         ELSE [call EXCEPT !.pc = "doctext"]]
  /\ UNCHANGED <<requestIdCounter, issued, proc>>

\* (mutation: the whole text is put in the message)
HttpMessageWhole(status, text) == <<"HTTP ", ToString(status), ": ">> \o text

HttpMessage(status, text) == <<"HTTP ", ToString(status), ": ">> \o Slice(text, SLICE_END)

\* await response.text().catch(() => response.statusText), then the throw
ErrorText(c) ==
  /\ calls[c].pc = "errtext"
  /\ \E text \in {calls[c].response.body, calls[c].response.statusText} :
       calls' = [calls EXCEPT ![c] =
         Catch(@, ErrorValue(HttpMessage(@.response.status, text)), "http")]
  /\ UNCHANGED <<requestIdCounter, issued, proc>>

\* (mutation: a document of exactly MAX_RESPONSE_SIZE is rejected as well)
DocumentTextCapExclusive(c) ==
  /\ calls[c].pc = "doctext"
  /\ LET call == calls[c]
         parsed == JSONparse(call.response.body)
     IN calls' = [calls EXCEPT ![c] =
          IF call.response.size >= MAX_RESPONSE_SIZE
          THEN Catch(call, ErrorValue(<<"Response exceeded maximum allowed size">>), "oversize")
          ELSE IF ~parsed.ok THEN Catch(call, SyntaxError, "syntax")
          ELSE Complete(call, parsed.value)]
  /\ UNCHANGED <<requestIdCounter, issued, proc>>

\* await response.text() of a single document, the size cap and JSON.parse
DocumentText(c) ==
  /\ calls[c].pc = "doctext"
  /\ LET call == calls[c]
         parsed == JSONparse(call.response.body)
     IN \/ \E t \in {<<Terminated, "readerror">>, <<TimeoutError, "timeout">>} :
             calls' = [calls EXCEPT ![c] = Catch(call, t[1], t[2])]
        \/ calls' = [calls EXCEPT ![c] =
             IF call.response.size > MAX_RESPONSE_SIZE
             THEN Catch(call, ErrorValue(<<"Response exceeded maximum allowed size">>), "oversize")
             ELSE IF ~parsed.ok THEN Catch(call, SyntaxError, "syntax")
             ELSE Complete(call, parsed.value)]
  /\ UNCHANGED <<requestIdCounter, issued, proc>>

\* (mutation: a notification is relayed only while none was relayed before)
LoopRelaysOnce(call, lines) ==
  LET st == RunLines(lines, call.finalResult, call.request.id, call.parseFailures) IN
  [call EXCEPT !.finalResult = st.finalResult,
               !.pending = st.pending,
               !.parseFailures = st.failed,
               !.relayed = IF st.notify /\ @ = <<>> THEN Append(@, st.params) ELSE @,
               !.pc = IF st.notify THEN "notify" ELSE "read"]

\* the for loop from `lines` on, up to the next relay or the end of the chunk
Loop(call, lines) ==
  LET st == RunLines(lines, call.finalResult, call.request.id, call.parseFailures) IN
  [call EXCEPT !.finalResult = st.finalResult,
               !.pending = st.pending,
               !.parseFailures = st.failed,
               !.relayed = IF st.notify THEN Append(@, st.params) ELSE @,
               !.pc = IF st.notify THEN "notify" ELSE "read"]

\* (mutation: the chunk replaces the buffer instead of being appended to it)
ReadChunkWithoutBuffer(c, sizes) ==
  /\ calls[c].pc = "read"
  /\ calls[c].wire # <<>>
  /\ \E k \in sizes :
       LET call == calls[c]
           text == SubSeq(call.wire, 1, k)
           lines == Split(text)
       IN calls' = [calls EXCEPT ![c] =
            Loop([call EXCEPT !.wire = SubSeq(call.wire, k + 1, Len(call.wire)),
                              !.readAttempted = TRUE,
                              !.buffer = lines[Len(lines)]],
                 SubSeq(lines, 1, Len(lines) - 1))]
  /\ UNCHANGED <<requestIdCounter, issued, proc>>

\* reader.read() resolves with a chunk
\* (buffer += chunk; lines = buffer.split("\n"); buffer = lines.pop() || "")
ReadChunk(c, sizes) ==
  /\ calls[c].pc = "read"
  /\ calls[c].wire # <<>>
  /\ \E k \in sizes :
       LET call == calls[c]
           text == call.buffer \o SubSeq(call.wire, 1, k)
           lines == Split(text)
       IN calls' = [calls EXCEPT ![c] =
            Loop([call EXCEPT !.wire = SubSeq(call.wire, k + 1, Len(call.wire)),
                              !.readAttempted = TRUE,
                              !.buffer = lines[Len(lines)]],
                 SubSeq(lines, 1, Len(lines) - 1))]
  /\ UNCHANGED <<requestIdCounter, issued, proc>>

\* (mutation: the captured result is returned without the null check)
ReadDoneWithoutCheck(c) ==
  /\ calls[c].pc = "read"
  /\ calls[c].wire = <<>>
  /\ LET call == [calls[c] EXCEPT !.readAttempted = TRUE, !.locked = FALSE, !.releases = @ + 1] IN
     calls' = [calls EXCEPT ![c] = Complete(call, call.finalResult)]
  /\ UNCHANGED <<requestIdCounter, issued, proc>>

\* (mutation: the text left in the buffer is processed as a last line at the close)
ReadDoneFlushesBuffer(c) ==
  /\ calls[c].pc = "read"
  /\ calls[c].wire = <<>>
  /\ LET st == RunLines(<<calls[c].buffer>>, calls[c].finalResult, calls[c].request.id,
                        calls[c].parseFailures)
         call == [calls[c] EXCEPT !.readAttempted = TRUE, !.locked = FALSE,
                                  !.releases = @ + 1,
                                  !.finalResult = st.finalResult,
                                  !.parseFailures = st.failed,
                                  !.relayed = IF st.notify THEN Append(@, st.params) ELSE @]
     IN calls' = [calls EXCEPT ![c] =
          IF call.finalResult.kind = "none"
          THEN Catch(call, ErrorValue(<<"No final result received from SSE stream">>), "nofinal")
          ELSE Complete(call, call.finalResult)]
  /\ UNCHANGED <<requestIdCounter, issued, proc>>

\* reader.read() resolves with done: the loop ends, the lock is released
ReadDone(c) ==
  /\ calls[c].pc = "read"
  /\ calls[c].wire = <<>>
  /\ LET call == [calls[c] EXCEPT !.readAttempted = TRUE, !.locked = FALSE, !.releases = @ + 1] IN
     calls' = [calls EXCEPT ![c] =
       IF call.finalResult.kind = "none"
       THEN Catch(call, ErrorValue(<<"No final result received from SSE stream">>), "nofinal")
       ELSE Complete(call, call.finalResult)]
  /\ UNCHANGED <<requestIdCounter, issued, proc>>

\* (mutation: a rejected read leaves handleSSEStream without the finally clause)
ReadErrorKeepsLock(c) ==
  /\ calls[c].pc = "read"
  /\ \E t \in {<<Terminated, "readerror">>, <<TimeoutError, "timeout">>} :
       calls' = [calls EXCEPT ![c] = Catch([@ EXCEPT !.readAttempted = TRUE], t[1], t[2])]
  /\ UNCHANGED <<requestIdCounter, issued, proc>>

\* (mutation: a rejected read returns the result captured so far, when there is one)
ReadErrorReturnsCaptured(c) ==
  /\ calls[c].pc = "read"
  /\ \E t \in {<<Terminated, "readerror">>, <<TimeoutError, "timeout">>} :
       LET call == [calls[c] EXCEPT !.readAttempted = TRUE, !.locked = FALSE,
                                    !.releases = @ + 1]
       IN calls' = [calls EXCEPT ![c] =
            IF call.finalResult.kind = "none"
            THEN Catch(call, t[1], t[2])
            ELSE Complete([call EXCEPT !.caught = t[1], !.cause = t[2],
                                       !.dropped = call.finalResult],
                          call.finalResult)]
  /\ UNCHANGED <<requestIdCounter, issued, proc>>

\* reader.read() rejects: the connection broke or the timeout signal fired
ReadError(c) ==
  /\ calls[c].pc = "read"
  /\ \E t \in {<<Terminated, "readerror">>, <<TimeoutError, "timeout">>} :
       calls' = [calls EXCEPT ![c] =
         Catch([@ EXCEPT !.readAttempted = TRUE, !.locked = FALSE, !.releases = @ + 1], t[1], t[2])]
  /\ UNCHANGED <<requestIdCounter, issued, proc>>

\* (mutation: a rejection of the relay is not caught in the loop)
NotificationSettledRaises(c) ==
  /\ calls[c].pc = "notify"
  /\ \E rejected \in BOOLEAN :
       calls' = [calls EXCEPT ![c] =
         IF rejected
         THEN Catch([@ EXCEPT !.relayFailed = TRUE, !.locked = FALSE, !.releases = @ + 1],
                    ErrorValue(<<"Not connected">>), "relay")
         ELSE Loop(@, @.pending)]
  /\ UNCHANGED <<requestIdCounter, issued, proc>>

\* await this.server.notification(...) settles; a rejection is logged and dropped
NotificationSettled(c) ==
  /\ calls[c].pc = "notify"
  /\ \E rejected \in BOOLEAN :
       calls' = [calls EXCEPT ![c] =
         Loop([@ EXCEPT !.relayFailed = @ \/ rejected], @.pending)]
  /\ UNCHANGED <<requestIdCounter, issued, proc>>

\* (mutation: the timeout signal ends the wait for the response head only)
ExpireBeforeHeadersOnly(c) ==
  /\ calls[c].pc = "fetch"
  /\ calls' = [calls EXCEPT ![c] = Catch(@, TimeoutError, "timeout")]
  /\ UNCHANGED <<requestIdCounter, issued, proc>>

\* AbortSignal.timeout(120000) fires: the pending fetch, response.text() or reader.read()
\* rejects with the TimeoutError (caught by `.catch(() => response.statusText)` on the
\* non-success path)
Expire(c) ==
  /\ calls[c].pc \in {"fetch", "errtext", "doctext", "read"}
  /\ LET call == calls[c] IN
     calls' = [calls EXCEPT ![c] =
       IF call.pc = "errtext"
       THEN Catch(call, ErrorValue(HttpMessage(call.response.status,
                                               call.response.statusText)), "http")
       ELSE IF call.pc = "read"
       THEN Catch([call EXCEPT !.readAttempted = TRUE, !.locked = FALSE, !.releases = @ + 1],
                  TimeoutError, "timeout")
       ELSE Catch(call, TimeoutError, "timeout")]
  /\ UNCHANGED <<requestIdCounter, issued, proc>>

\* the local transport has the reply; the slot is free for the next invocation
\* (mutation: the envelope of the call is kept for the next call of the slot)
ReturnKeepsEnvelope(c) ==
  /\ calls[c].pc = "done"
  /\ calls' = [calls EXCEPT ![c] = [InitCall EXCEPT !.finalResult = calls[c].envelope]]
  /\ UNCHANGED <<requestIdCounter, issued, proc>>

Return(c) ==
  /\ calls[c].pc = "done"
  /\ calls' = [calls EXCEPT ![c] = InitCall]
  /\ UNCHANGED <<requestIdCounter, issued, proc>>

(***************************************************************************)
(* Spec: the bridge instance serving up to MaxRequests invocations, two at *)
(* a time, overlapping freely.  The remote answers with a short stream, a  *)
(* document, an HTTP error or not at all, and delivers a stream one line   *)
(* per chunk.                                                              *)
(***************************************************************************)
CallerTokens == {Absent, "tok-1"}

\* the ids of the other requests issued so far, or a stray id when there is none
OtherIds(id) ==
  IF requestIdCounter > 1 THEN (1..requestIdCounter) \ {id} ELSE {id + 1}

NoBodyStream == Response(200, <<"O", "K">>, "text/event-stream", FALSE, <<>>, 0)

ShortStreams(id) ==
  {EventStream(<<ResultMsg(o, "content:b"), ResultMsg(id, "content:a")>>, FALSE) :
     o \in OtherIds(id)}
  \cup {EventStream(<<ResultMsg(o, "content:b")>>, FALSE) : o \in OtherIds(id)}
  \cup {EventStream(<<ProgressMsg("tok-1 1/2"), ResultMsg(id, "content:a")>>, FALSE)}
  \cup {NoBodyStream}

ShortResponses(id) ==
  ShortStreams(id)
  \cup {Document(<<Stringify(ResultMsg(id, "tools:[t1,t2]"))>>, 64)}
  \cup {HttpError(500, <<"o", "o", "p", "s">>)}

\* the chunk ends with the first newline of the body
FirstLine(wire) ==
  {Least({i \in DOMAIN wire : wire[i] = NL} \cup {Len(wire)})}

Next ==
  \E c \in Slots :
    \/ ListTools(c)
    \/ CallTool(c, CallerTokens)
    \/ FetchReject(c)
    \/ FetchResolve(c, ShortResponses(calls[c].request.id))
    \/ ErrorText(c)
    \/ DocumentText(c)
    \/ ReadChunk(c, FirstLine(calls[c].wire))
    \/ ReadDone(c)
    \/ ReadError(c)
    \/ NotificationSettled(c)
    \/ Return(c)

Spec == Init /\ [][Next]_vars

(***************************************************************************)
(* SpecOne: one invocation, every kind of answer, streams of up to         *)
(* MaxLines lines cut into chunks at any character.                        *)
(***************************************************************************)
StreamEvents(id) ==
  {ProgressMsg(p) : p \in ProgressParams}
  \cup {ResultMsg(id, r) : r \in {"content:a", "content:b"}}
  \cup {ResultMsg(id + 1, "content:b")}
  \cup {FailureMsg(id, e) : e \in RemoteErrors}
  \cup {Garbage}

Streams(id) ==
  {EventStream(events, open) :
     events \in SeqsUpTo(StreamEvents(id), MaxLines), open \in BOOLEAN}

Documents(id) ==
  {Document(<<Stringify(m)>>, 64) :
     m \in {ResultMsg(id, r) : r \in Results}
           \cup {FailureMsg(id, e) : e \in RemoteErrors}
           \cup {ResultMsg(id + 1, "content:a"), JsonNull, JsonNumber, JsonArray,
                 BareMsg(id), BothMsg(id), LongFailureMsg(id)}}
  \cup {Document(<<"not json at all!">>, 16)}
  \cup {Document(<<Stringify(ResultMsg(id, "content:a"))>>, n) :
          n \in {MAX_RESPONSE_SIZE, MAX_RESPONSE_SIZE + 1}}
  \cup {Document(<<"not json at all!">>, MAX_RESPONSE_SIZE + 1)}

HttpErrors ==
  {HttpError(status, body) :
     status \in {401, 500},
     body \in {<<>>, <<"o", "o", "p", "s">>, Slice(LongBody, SLICE_END), LongBody}}

AllResponses(id) == Streams(id) \cup {NoBodyStream} \cup Documents(id) \cup HttpErrors

\* a chunk is any non-empty prefix of what is left of the body
AnyPrefix(wire) == 1..Len(wire)

NextOne ==
  \E c \in {1} :
    \/ ListTools(c)
    \/ CallTool(c, {Absent})
    \/ FetchReject(c)
    \/ FetchResolve(c, AllResponses(calls[c].request.id))
    \/ ErrorText(c)
    \/ DocumentText(c)
    \/ ReadChunk(c, AnyPrefix(calls[c].wire))
    \/ ReadDone(c)
    \/ ReadError(c)
    \/ NotificationSettled(c)

SpecOne == Init /\ [][NextOne]_vars

(***************************************************************************)
(* SpecDispatch: one invocation answered with a stream whose messages have *)
(* every combination of the progress method and the id of the request.     *)
(***************************************************************************)
DispatchEvents(id) ==
  {ProgressMsg("tok-1 1/2"), ProgressWithId(id, "tok-1 2/2"),
   ResultMsg(id, "content:a"), ResultMsg(id + 1, "content:b")}

DispatchStreams(id) ==
  {EventStream(events, FALSE) : events \in SeqsUpTo(DispatchEvents(id), MaxLines)}

NextDispatch ==
  \E c \in {1} :
    \/ ListTools(c)
    \/ CallTool(c, {Absent})
    \/ FetchResolve(c, DispatchStreams(calls[c].request.id))
    \/ ReadChunk(c, AnyPrefix(calls[c].wire))
    \/ ReadDone(c)
    \/ NotificationSettled(c)

SpecDispatch == Init /\ [][NextDispatch]_vars

(***************************************************************************)
(* SpecClassify: one invocation answered with every combination of status, *)
(* content-type and kind of body.                                          *)
(***************************************************************************)
ClassifyStatuses == {200, 201, 404, 500}

ClassifyBodies(id) ==
  {EventStream(<<ProgressMsg("tok-1 1/2"), ResultMsg(id, "content:a")>>, FALSE),
   Document(<<Stringify(ResultMsg(id, "content:a"))>>, 64)}

ClassifyResponses(id) ==
  {[b EXCEPT !.status = status, !.contentType = ct] :
     b \in ClassifyBodies(id), status \in ClassifyStatuses, ct \in ContentTypes}

NextClassify ==
  \E c \in {1} :
    \/ ListTools(c)
    \/ CallTool(c, {Absent})
    \/ FetchResolve(c, ClassifyResponses(calls[c].request.id))
    \/ ErrorText(c)
    \/ DocumentText(c)
    \/ ReadChunk(c, FirstLine(calls[c].wire))
    \/ ReadDone(c)
    \/ NotificationSettled(c)

SpecClassify == Init /\ [][NextClassify]_vars

(***************************************************************************)
(* SpecLines: one invocation answered with a stream of lines of every       *)
(* kind: data lines, blank lines, event and comment lines, data lines with  *)
(* an empty payload, and a data line without the space after the colon.     *)
(***************************************************************************)
\* a line of the body and the message it carries for the loop, if any
LineItem(line, events) == [line |-> line, events |-> events]

LineItems(id) ==
  {LineItem(DataLine(e), <<e>>) : e \in {ProgressMsg("tok-1 1/2"), ResultMsg(id, "content:a")}}
  \cup {LineItem(line, <<>>) :
          line \in {<<>>, <<"event: message">>, <<": keep-alive">>,
                    DataMarker, DataMarker \o <<SP, SP>>,
                    <<"da", "ta:", Stringify(ResultMsg(id, "content:b"))>>}}

RECURSIVE EventsOf(_)
EventsOf(items) ==
  IF items = <<>> THEN <<>> ELSE Head(items).events \o EventsOf(Tail(items))

LineStream(items) ==
  [Response(200, <<"O", "K">>, "text/event-stream", TRUE,
            Join([i \in DOMAIN items |-> items[i].line], FALSE), 0)
   EXCEPT !.sent = EventsOf(items)]

LineStreams(id) == {LineStream(items) : items \in SeqsUpTo(LineItems(id), MaxLines)}

NextLines ==
  \E c \in {1} :
    \/ ListTools(c)
    \/ CallTool(c, {Absent})
    \/ FetchResolve(c, LineStreams(calls[c].request.id))
    \/ ReadChunk(c, FirstLine(calls[c].wire))
    \/ ReadDone(c)
    \/ NotificationSettled(c)

SpecLines == Init /\ [][NextLines]_vars

(***************************************************************************)
(* SpecLive: Spec with the timer of AbortSignal.timeout as an action of    *)
(* its own.  The remote is free to stall: nothing is assumed of fetch, of  *)
(* the body or of its close.  The timer fires (it is a wall-clock timer of *)
(* the runtime) and the local transport settles a notification it was      *)
(* given.                                                                  *)
(***************************************************************************)
NextLive ==
  \E c \in Slots :
    \/ Expire(c)
    \/ ListTools(c)
    \/ CallTool(c, {Absent})
    \/ FetchReject(c)
    \/ FetchResolve(c, ShortResponses(calls[c].request.id))
    \/ ErrorText(c)
    \/ DocumentText(c)
    \/ ReadChunk(c, FirstLine(calls[c].wire))
    \/ ReadDone(c)
    \/ ReadError(c)
    \/ NotificationSettled(c)
    \/ Return(c)

Fairness == \A c \in Slots : WF_vars(Expire(c)) /\ WF_vars(NotificationSettled(c))

SpecLive == Init /\ [][NextLive]_vars /\ Fairness

(***************************************************************************)
(* SpecTokens: one invocation after another, the local caller supplying    *)
(* every kind of progress token: none, a string, the empty string, an      *)
(* integer, the integer 0.                                                 *)
(***************************************************************************)
AllTokens == {Absent, "tok-1", "", NumberToken(0), NumberToken(7)}

NextTokens ==
  \E c \in {1} :
    \/ ListTools(c)
    \/ CallTool(c, AllTokens)
    \/ FetchReject(c)
    \/ FetchResolve(c, ShortResponses(calls[c].request.id))
    \/ ErrorText(c)
    \/ DocumentText(c)
    \/ ReadChunk(c, FirstLine(calls[c].wire))
    \/ ReadDone(c)
    \/ ReadError(c)
    \/ NotificationSettled(c)
    \/ Return(c)

SpecTokens == Init /\ [][NextTokens]_vars

(***************************************************************************)
(* SpecUrl: validateServerUrl applied to one string: not a URL, or a URL   *)
(* with a scheme in either case and a host that is a name, an IPv6 address *)
(* or an IPv4 address (every second octet for 172, the neighbours of the   *)
(* other blocked ranges).                                                  *)
(***************************************************************************)
Schemes ==
  {<<"h", "t", "t", "p">>, <<"h", "t", "t", "p", "s">>, <<"H", "T", "T", "P", "S">>,
   <<"f", "t", "p">>, <<"f", "i", "l", "e">>, <<"w", "s">>}

Octet == 0..255

Ipv4s ==
  {<<172, b, c, 1>> : b \in Octet, c \in {0, 255}}
  \cup {<<a, b, 0, 1>> : a \in {1, 10, 11, 100, 192, 193}, b \in {0, 16, 167, 168, 169, 255}}
  \cup {<<127, 0, 0, 1>>, <<127, 0, 0, 2>>, <<0, 0, 0, 0>>, <<0, 0, 0, 1>>,
        <<169, 254, 169, 254>>, <<169, 254, 169, 253>>, <<8, 8, 8, 8>>}

Names ==
  {<<"l", "o", "c", "a", "l", "h", "o", "s", "t">>,
   <<"L", "o", "c", "a", "l", "H", "O", "S", "T">>,
   <<"f", "o", "o", ".", "i", "n", "t", "e", "r", "n", "a", "l">>,
   <<"D", "B", ".", "I", "N", "T", "E", "R", "N", "A", "L">>,
   <<"i", "n", "t", "e", "r", "n", "a", "l", ".", "i", "o">>,
   <<"a", "p", "i", ".", "e", "x", "a", "m", "p", "l", "e", ".", "c", "o", "m">>,
   <<"m", "c", "p", ".", "a", "i", "r", "f", "r", "a", "m", "e", ".", "a", "i">>,
   <<"1", "0", ".", "e", "x", "a", "m", "p", "l", "e", ".", "c", "o", "m">>}

Hosts ==
  {NameHost(n) : n \in Names}
  \cup {Ipv4Host(o) : o \in Ipv4s}
  \cup {Ipv6Host(<<":", ":", "1">>), Ipv6Host(<<"2", "0", "0", "1", ":", ":", "1">>), NoHost}

Urls ==
  {UrlString(scheme, host) : scheme \in Schemes, host \in Hosts}
  \cup {Plain(""), Plain("not-a-url"), Plain("localhost"), Plain("http://")}

Validate ==
  /\ proc.pc = "validate"
  /\ proc' = [proc EXCEPT !.pc = "validated", !.reason = validateServerUrl(proc.url)]
  /\ UNCHANGED <<requestIdCounter, calls, issued>>

InitUrl ==
  /\ requestIdCounter = 0
  /\ calls = [c \in Slots |-> InitCall]
  /\ issued = <<>>
  /\ proc \in {[NoProc EXCEPT !.pc = "validate", !.url = u] : u \in Urls}

NextUrl == Validate

SpecUrl == InitUrl /\ [][NextUrl]_vars

(***************************************************************************)
(* SpecCli: the process from its start.  main runs on an argument list of  *)
(* up to MaxArgs strings (flags, keys, URLs, in any order); the bridge it  *)
(* starts serves a call whose fetch is rejected.  parseCliArgs is also     *)
(* called on its own, as an exported function.                             *)
(***************************************************************************)
CUSTOM_SERVER_URL ==
  UrlString(<<"h", "t", "t", "p", "s">>,
            NameHost(<<"a", "p", "i", ".", "e", "x", "a", "m", "p", "l", "e", ".", "c", "o", "m">>))
LOCALHOST_URL ==
  UrlString(<<"h", "t", "t", "p">>, NameHost(<<"l", "o", "c", "a", "l", "h", "o", "s", "t">>))

Arguments ==
  {Plain("--api-key"), Plain("--server-url"), Plain("--help"), Plain("-h"),
   VALID_API_KEY, INVALID_API_KEY, EmptyString,
   CUSTOM_SERVER_URL, LOCALHOST_URL, Plain("not-a-url")}

USAGE == "Airframe MCP Client for Claude Desktop ..."

\* args.includes("--help") || args.includes("-h")
IncludesHelp(args) == \E i \in DOMAIN args : args[i].text \in {"--help", "-h"}

\* msg.includes("--api-key is required")
IncludesRequired(msg) == msg = "Error: --api-key is required"

\* (mutation: the arguments are parsed before the help flag is looked for)
MainParsesFirst ==
  /\ proc.pc = "start"
  /\ LET r == parseCliArgs(proc.args) IN
     proc' =
       IF r.kind = "throw"
       THEN [proc EXCEPT !.pc = "exited", !.exitCode = 1, !.parsed = r,
                         !.stderr = <<r.message>>]
       ELSE IF IncludesHelp(proc.args)
       THEN [proc EXCEPT !.pc = "exited", !.exitCode = 0, !.stdout = <<USAGE>>]
       ELSE IF r.kind = "null"
       THEN [proc EXCEPT !.pc = "exited", !.exitCode = 0, !.parsed = r]
       ELSE Started([proc EXCEPT !.parsed = r,
                                 !.stderr = IF r.warned
                                            THEN <<"Warning: API key should start with 'af_'">>
                                            ELSE <<>>],
                    r.apiKey, r.serverUrl)
  /\ UNCHANGED <<requestIdCounter, calls, issued>>

\* main, up to process.exit or to the end of bridge.run()
Main ==
  /\ proc.pc = "start"
  /\ LET r == parseCliArgs(proc.args) IN
     proc' =
       IF IncludesHelp(proc.args)
       THEN [proc EXCEPT !.pc = "exited", !.exitCode = 0, !.stdout = <<USAGE>>]
       ELSE IF r.kind = "null"
       THEN [proc EXCEPT !.pc = "exited", !.exitCode = 0, !.parsed = r]
       ELSE IF r.kind = "throw"
       THEN [proc EXCEPT !.pc = "exited", !.exitCode = 1, !.parsed = r,
                         !.stderr =
                           IF IncludesRequired(r.message)
                           THEN <<r.message,
                                  "Usage: airframe-mcp --api-key YOUR_API_KEY [--server-url URL]",
                                  "Get your API key at: https://airframe.ai/account/api-keys">>
                           ELSE <<r.message>>]
       ELSE Started([proc EXCEPT !.parsed = r,
                                 !.stderr = IF r.warned
                                            THEN <<"Warning: API key should start with 'af_'">>
                                            ELSE <<>>],
                    r.apiKey, r.serverUrl)
  /\ UNCHANGED <<requestIdCounter, calls, issued>>

\* parseCliArgs called on its own
ParseCliArgs ==
  /\ proc.pc = "start"
  /\ LET r == parseCliArgs(proc.args) IN
     proc' = [proc EXCEPT !.pc = "parsed", !.parsed = r,
                          !.stderr = IF r.kind = "ok" /\ r.warned
                                     THEN <<"Warning: API key should start with 'af_'">>
                                     ELSE <<>>]
  /\ UNCHANGED <<requestIdCounter, calls, issued>>

InitCli ==
  /\ requestIdCounter = 0
  /\ calls = [c \in Slots |-> InitCall]
  /\ issued = <<>>
  /\ proc \in {[NoProc EXCEPT !.args = a] : a \in SeqsUpTo(Arguments, MaxArgs)}

NextCli ==
  \/ Main
  \/ ParseCliArgs
  \/ proc.pc = "running" /\ CallTool(1, {Absent})
  \/ proc.pc = "running" /\ FetchReject(1)

SpecCli == InitCli /\ [][NextCli]_vars

(***************************************************************************)
(* Properties.                                                             *)
(***************************************************************************)
\* the response went to handleSSEStream
Streamed(call) == Ok(call.response) /\ IncludesEventStream(call.response.contentType)

\* the body was read up to its close
ReadToClose(call) == call.cause \notin {"readerror", "timeout"}

\* the events of a stream body that the remote ended with a newline
Delivered(r) == IF r.open THEN SubSeq(r.sent, 1, Len(r.sent) - 1) ELSE r.sent

IsProgress(e) == e.kind = "object" /\ e.method = ProgressMethod
IsTerminal(e, id) ==
  e.kind = "object" /\ e.method # ProgressMethod /\ e.jsonrpc = "2.0" /\ e.id = id
IsResult(e, id) == IsTerminal(e, id) /\ e.result # Absent /\ ~e.error.present

ParamsOf(events) == [i \in DOMAIN events |-> events[i].params]

ProgressThenResult(events, id) ==
  /\ Len(events) >= 1
  /\ \A i \in 1..(Len(events) - 1) : IsProgress(events[i])
  /\ IsResult(events[Len(events)], id)

C1_Case(call) ==
  /\ call.pc = "done"
  /\ call.request.method = "tools/call"
  /\ Streamed(call) /\ call.response.hasBody /\ ~call.response.open
  /\ ReadToClose(call)
  /\ ProgressThenResult(call.response.sent, call.request.id)

\* C1: a tools/call whose stream carries N progress notifications and then one result
\* with the id of the request relays exactly those N notifications, in their order,
\* and returns exactly that result.
C1_ProgressThenResult ==
  \A c \in Slots :
    LET call == calls[c]
        sent == call.response.sent
    IN C1_Case(call) =>
         /\ call.relayed = ParamsOf(SubSeq(sent, 1, Len(sent) - 1))
         /\ call.outcome.status = "returned"
         /\ call.outcome.shape = "result"
         /\ call.outcome.result = sent[Len(sent)].result

C1_Witness ==
  \E c \in Slots :
    /\ C1_Case(calls[c])
    /\ Len(calls[c].response.sent) = 3
    /\ calls[c].relayed = <<"tok-1 1/2", "tok-1 2/2">>
    /\ calls[c].outcome.result = "content:a"

FetchRejected(call) == call.response = NoResponse
BadStatus(call) == call.response # NoResponse /\ ~Ok(call.response)
SingleDocument(call) == Ok(call.response) /\ ~IncludesEventStream(call.response.contentType)
Oversized(call) == SingleDocument(call) /\ call.response.size > MAX_RESPONSE_SIZE
Malformed(call) == SingleDocument(call) /\ call.response.body = <<"not json at all!">>
NoBody(call) == Streamed(call) /\ ~call.response.hasBody
NoTerminal(call) ==
  /\ Streamed(call) /\ call.response.hasBody /\ ReadToClose(call)
  /\ \A i \in DOMAIN call.response.sent : ~IsTerminal(call.response.sent[i], call.request.id)

FailedExchange(call) ==
  \/ call.cause # "none"
  \/ FetchRejected(call) \/ BadStatus(call) \/ Oversized(call) \/ Malformed(call)
  \/ NoBody(call) \/ NoTerminal(call)

\* C2: forwardRequest always returns, and when the exchange failed (fetch rejected with
\* an Error or another value, non-success status, oversized or malformed document,
\* timeout, stream without body or without terminal message) it returns an envelope
\* with an error of code -32603, the message of the failure and the id of the request.
C2_ForwardNeverRaises ==
  \A c \in Slots :
    LET call == calls[c] IN
    call.pc = "done" =>
      /\ call.envelope.kind # "none"
      /\ FailedExchange(call) =>
           /\ call.envelope.kind = "object"
           /\ call.envelope.error.present
           /\ call.envelope.error.code = -32603
           /\ call.envelope.error.message # <<>>
           /\ call.envelope.error.message = call.caught.text
           /\ call.envelope.result = Absent
           /\ call.envelope.id = call.request.id
           /\ call.request.id > 0

C2_Witness ==
  \E c \in Slots :
    /\ calls[c].pc = "done"
    /\ NoTerminal(calls[c])
    /\ calls[c].relayed # <<>>
    /\ calls[c].envelope.error.code = -32603
    /\ calls[c].envelope.id = calls[c].request.id

\* C3: a tools/call that got a failure envelope, from the remote or from the
\* forwarder, returns one text block "Error: " + the failure message and does not raise.
C3_CallFailureIsErrorText ==
  \A c \in Slots :
    LET call == calls[c] IN
    (/\ call.pc = "done"
     /\ call.request.method = "tools/call"
     /\ call.envelope.kind = "object"
     /\ call.envelope.error.present)
    => /\ call.outcome.status = "returned"
       /\ call.outcome.content =
            <<[type |-> "text", text |-> <<"Error: ">> \o call.envelope.error.message]>>
       /\ call.outcome.result = Absent
       /\ call.outcome.tools = <<>>
       /\ call.outcome.message = <<>>

C3_Witness ==
  \E c \in Slots :
    /\ calls[c].pc = "done"
    /\ calls[c].request.method = "tools/call"
    /\ Streamed(calls[c])
    /\ calls[c].cause = "none"
    /\ calls[c].envelope.error.present
    /\ calls[c].outcome.content =
         <<[type |-> "text", text |-> <<"Error: ", "Bad request">>]>>

\* C4: a tools/list that got a failure envelope, from the remote or from the
\* forwarder, raises with the message of the envelope unchanged and returns no tools.
C4_ListFailureRaises ==
  \A c \in Slots :
    LET call == calls[c] IN
    (/\ call.pc = "done"
     /\ call.request.method = "tools/list"
     /\ call.envelope.kind = "object"
     /\ call.envelope.error.present)
    => /\ call.outcome.status = "raised"
       /\ call.outcome.message = call.envelope.error.message
       /\ call.outcome.tools = <<>>
       /\ call.outcome.content = <<>>
       /\ call.outcome.result = Absent

C4_Witness ==
  \E c \in Slots :
    /\ calls[c].pc = "done"
    /\ calls[c].request.method = "tools/list"
    /\ BadStatus(calls[c])
    /\ calls[c].outcome.status = "raised"
    /\ calls[c].outcome.message = <<"HTTP ", "500", ": ", "o", "o", "p", "s">>

\* C5: the ids of the outbound envelopes strictly increase in issue order, the counter
\* has advanced once per envelope, and outstanding or finished calls never share an id.
C5_IdsStrictlyIncrease ==
  /\ requestIdCounter = Len(issued)
  /\ \A i, j \in DOMAIN issued : i < j => issued[i] < issued[j]
  /\ \A c \in Slots :
       calls[c].pc # "idle" => \E i \in DOMAIN issued : issued[i] = calls[c].request.id
  /\ \A c, d \in Slots :
       (c # d /\ calls[c].pc # "idle" /\ calls[d].pc # "idle")
       => calls[c].request.id # calls[d].request.id

C5_Witness ==
  \E c, d \in Slots :
    /\ issued = <<1, 2, 3>>
    /\ calls[c].pc = "done" /\ calls[c].cause # "none" /\ calls[c].request.id = 2
    /\ calls[c].request.method = "tools/list"
    /\ calls[d].pc = "read" /\ calls[d].request.id = 3
    /\ calls[d].request.method = "tools/call"

\* the stream of the call had a body and was read up to its close
C6_Case(call) ==
  call.pc = "done" /\ Streamed(call) /\ call.response.hasBody /\ ReadToClose(call)

\* C6: with calls outstanding at once, a call captures and returns only a message of
\* its own stream that has its own request id; a stream that carries only another
\* call's id leaves the call without a result.
C6_OwnTerminalOnly ==
  \A c \in Slots :
    LET call == calls[c]
        D == Delivered(call.response)
    IN /\ call.finalResult.kind # "none" =>
            /\ call.finalResult.id = call.request.id
            /\ \E i \in DOMAIN D : D[i] = call.finalResult
       /\ C6_Case(call) =>
            /\ call.cause = "none" =>
                 /\ call.envelope.id = call.request.id
                 /\ \E i \in DOMAIN D : D[i] = call.envelope
            /\ (\A i \in DOMAIN D : D[i].id # call.request.id) =>
                 /\ call.cause = "nofinal"
                 /\ call.envelope.error.present

C6_Witness ==
  \E c, d \in Slots :
    /\ c # d
    /\ C6_Case(calls[c]) /\ calls[c].cause = "none"
    /\ calls[d].pc = "read" /\ calls[d].finalResult.kind = "none"
    /\ calls[d].request.id < calls[c].request.id
    /\ calls[c].response.sent[1].id = calls[d].request.id
    /\ calls[c].envelope = ResultMsg(calls[c].request.id, "content:a")

ProgressIn(events) == ParamsOf(SelectSeq(events, IsProgress))
IsPrefix(s, t) == Len(s) <= Len(t) /\ s = SubSeq(t, 1, Len(s))

C7_Relayed ==
  \A c \in Slots :
    LET call == calls[c]
        all == ProgressIn(Delivered(call.response))
    IN /\ IsPrefix(call.relayed, all)
       /\ C6_Case(call) => call.relayed = all

C7_Step ==
  \A c \in Slots :
    calls'[c].relayed # calls[c].relayed =>
      \/ calls'[c] = InitCall
      \/ /\ calls[c].pc \in {"read", "notify"}
         /\ calls'[c].pc = "notify"
         /\ calls'[c].outcome = NoOutcome
         /\ IsPrefix(calls[c].relayed, calls'[c].relayed)

\* C7: the progress notifications of the complete lines of a stream are relayed in
\* the order received, all of them before the call returns, and none is relayed in
\* or after the step in which the call returns.
C7_RelayedBeforeReturn == []C7_Relayed /\ [][C7_Step]_vars

C7_Witness ==
  \E c \in Slots :
    /\ C6_Case(calls[c])
    /\ calls[c].cause = "none"
    /\ Len(calls[c].response.sent) = 3
    /\ IsResult(calls[c].response.sent[1], calls[c].request.id)
    /\ calls[c].relayed = <<"tok-1 2/2", "tok-1 1/2">>

Terminals(events, id) == {i \in DOMAIN events : IsTerminal(events[i], id)}
Greatest(S) == CHOOSE x \in S : \A y \in S : y <= x

C8_Case(call) ==
  /\ C6_Case(call)
  /\ Cardinality(Terminals(Delivered(call.response), call.request.id)) >= 2

\* C8 as stated: of several messages with the request id the first is returned.
C8_FirstMatchWins ==
  \A c \in Slots :
    LET call == calls[c]
        D == Delivered(call.response)
    IN C8_Case(call) => call.envelope = D[Least(Terminals(D, call.request.id))]

\* C8 as amended: of several messages with the request id in a stream the last one
\* is returned; each later one replaces the one captured before.
C8_LastMatchWins ==
  \A c \in Slots :
    LET call == calls[c]
        D == Delivered(call.response)
    IN C8_Case(call) => call.envelope = D[Greatest(Terminals(D, call.request.id))]

C8_Witness ==
  \E c \in Slots :
    /\ C8_Case(calls[c])
    /\ calls[c].response.sent[1] = ResultMsg(calls[c].request.id, "content:a")
    /\ calls[c].response.sent[2] = ResultMsg(calls[c].request.id, "content:b")
    /\ calls[c].envelope = ResultMsg(calls[c].request.id, "content:b")
    /\ calls[c].outcome.result = "content:b"

NotGarbage(e) == e.kind # "garbage"
Parseable(events) == SelectSeq(events, NotGarbage)

NoFinalResultEnvelope(id) ==
  [kind |-> "object", method |-> Absent, jsonrpc |-> "2.0", id |-> id,
   params |-> Absent, result |-> Absent,
   error |-> [present |-> TRUE, code |-> -32603,
              message |-> <<"No final result received from SSE stream">>]]

\* C9: the notifications relayed and the envelope returned are those of the stream
\* without its unparseable data lines, wherever these lines stand; each of them is
\* logged once and none ends the reassembly.
C9_UnparseableLinesSkipped ==
  \A c \in Slots :
    LET call == calls[c]
        D == Delivered(call.response)
        P == Parseable(D)
        T == Terminals(P, call.request.id)
    IN C6_Case(call) =>
         /\ call.relayed = ProgressIn(P)
         /\ call.envelope = IF T = {} THEN NoFinalResultEnvelope(call.request.id)
                            ELSE P[Greatest(T)]
         /\ call.parseFailures = Len(D) - Len(P)
         /\ call.cause \in {"none", "nofinal"}

C9_Witness ==
  \E c \in Slots :
    /\ C6_Case(calls[c])
    /\ Len(calls[c].response.sent) = 3
    /\ calls[c].response.sent[1] = Garbage
    /\ IsProgress(calls[c].response.sent[2])
    /\ IsResult(calls[c].response.sent[3], calls[c].request.id)
    /\ ~calls[c].response.open
    /\ calls[c].parseFailures = 1
    /\ Len(calls[c].relayed) = 1
    /\ calls[c].outcome.result = calls[c].response.sent[3].result

\* C10: a stream that closes without a message with the request id gives the failure
\* "No final result received from SSE stream"; a stream response without a body gives
\* the failure "No response body" and nothing is read.
C10_NoTerminalOrNoBody ==
  \A c \in Slots :
    LET call == calls[c] IN
    call.pc = "done" =>
      /\ NoTerminal(call) => call.envelope = NoFinalResultEnvelope(call.request.id)
      /\ NoBody(call) =>
           /\ call.envelope.error.present
           /\ call.envelope.error.message = <<"No response body">>
           /\ call.envelope.id = call.request.id
           /\ ~call.readAttempted

C10_Witness ==
  \E c \in Slots :
    /\ calls[c].pc = "done"
    /\ NoTerminal(calls[c])
    /\ calls[c].readAttempted
    /\ Len(calls[c].relayed) = 2
    /\ calls[c].outcome.content =
         <<[type |-> "text",
            text |-> <<"Error: ", "No final result received from SSE stream">>]>>

C10_WitnessNoBody ==
  \E c \in Slots :
    /\ calls[c].pc = "done"
    /\ NoBody(calls[c])
    /\ calls[c].envelope.error.message = <<"No response body">>

Outstanding(call) == call.pc \notin {"idle", "done"}

C11_Expiry ==
  \A c \in Slots :
    LET call == calls[c] IN
    (call.pc = "done" /\ call.cause = "timeout") =>
      /\ call.envelope.error.present
      /\ call.envelope.error.code = -32603
      /\ call.envelope.error.message = TimeoutError.text
      /\ call.envelope.id = call.request.id
      /\ call.outcome.status # "pending"
      /\ ~call.locked

C12_Case(call) ==
  call.pc = "done" /\ SingleDocument(call) /\ call.cause \notin {"readerror", "timeout"}

\* C12: a single document whose text has at most MAX_RESPONSE_SIZE characters is given
\* to JSON.parse (its value is returned, or its syntax error is the failure); one of
\* MAX_RESPONSE_SIZE + 1 or more is rejected with "Response exceeded maximum allowed
\* size" whatever its text, well-formed or not.
C12_SizeCap ==
  \A c \in Slots :
    LET call == calls[c] IN
    C12_Case(call) =>
      /\ call.response.size <= 10 * 1024 * 1024 =>
           \/ call.cause = "none" /\ <<Stringify(call.envelope)>> = call.response.body
           \/ call.cause = "syntax" /\ call.envelope.error.message = SyntaxError.text
      /\ call.response.size >= 10 * 1024 * 1024 + 1 =>
           /\ call.cause = "oversize"
           /\ call.envelope.error.present
           /\ call.envelope.error.message = <<"Response exceeded maximum allowed size">>
           /\ call.envelope.result = Absent

C12_Witness ==
  \E c \in Slots :
    /\ C12_Case(calls[c])
    /\ calls[c].response.size = 10 * 1024 * 1024
    /\ calls[c].cause = "none"
    /\ calls[c].outcome.result = "content:a"

C12_WitnessOversize ==
  \E c \in Slots :
    /\ C12_Case(calls[c])
    /\ calls[c].response.size = 10 * 1024 * 1024 + 1
    /\ calls[c].response.body = <<"not json at all!">>
    /\ calls[c].cause = "oversize"

C13_Case(call) == call.pc = "done" /\ BadStatus(call)

\* what the reply shows of the failure: the message raised or the text of the block
ReplyText(call) ==
  IF call.outcome.status = "raised" THEN call.outcome.message
  ELSE IF call.outcome.content # <<>> THEN call.outcome.content[1].text
  ELSE <<>>

Occurs(ch, text) == \E i \in DOMAIN text : text[i] = ch

\* C13: for a non-success status and a body of any length the failure message is
\* "HTTP <status>: " and then the first 200 characters of the body at most (or the
\* status text, when the body could not be read); character 201 of the body is
\* neither in the envelope nor in the reply.
C13_HttpFailureBounded ==
  \A c \in Slots :
    LET call == calls[c]
        r == call.response
        head == <<"HTTP ", ToString(r.status), ": ">>
        message == call.envelope.error.message
    IN C13_Case(call) =>
         /\ call.envelope.error.present
         /\ Len(message) <= 3 + 200
         /\ \/ message = head \o SubSeq(r.body, 1, IF Len(r.body) < 200 THEN Len(r.body) ELSE 200)
            \/ message = head \o r.statusText
         /\ \A i \in DOMAIN r.body : i > 200 =>
              ~Occurs(r.body[i], message) /\ ~Occurs(r.body[i], ReplyText(call))
         /\ Len(ReplyText(call)) <= 4 + 200

C13_Witness ==
  \E c \in Slots :
    /\ C13_Case(calls[c])
    /\ calls[c].request.method = "tools/call"
    /\ Len(calls[c].response.body) = 201
    /\ calls[c].response.status = 500
    /\ Len(calls[c].envelope.error.message) = 203
    /\ calls[c].envelope.error.message[203] = "x"
    /\ Len(calls[c].outcome.content[1].text) = 204

\* what a stream read to its close gives, from what the remote sent
ExpectedEnvelope(call) ==
  LET P == Parseable(Delivered(call.response))
      T == Terminals(P, call.request.id)
  IN IF T = {} THEN NoFinalResultEnvelope(call.request.id) ELSE P[Greatest(T)]

\* C14: a call that had a relay rejected by the local transport goes on: nothing is
\* thrown to forwardRequest by the rejection, every notification of the stream is
\* relayed, those after the rejected one too, and the envelope returned is the one
\* the stream gives when no relay is rejected.
C14_RelayRejectionIgnored ==
  \A c \in Slots :
    LET call == calls[c] IN
    call.relayFailed =>
      /\ call.cause \in {"none", "nofinal", "readerror", "timeout"}
      /\ call.pc # "done" => call.caught = NoThrow /\ call.outcome = NoOutcome
      /\ IsPrefix(call.relayed, ProgressIn(Delivered(call.response)))
      /\ C6_Case(call) =>
           /\ call.relayed = ProgressIn(Delivered(call.response))
           /\ call.envelope = ExpectedEnvelope(call)
           /\ call.outcome = HandlerReply(call.request.method, ExpectedEnvelope(call))

\* the first relay was rejected and the second notification is with the transport
C14_Witness ==
  \E c \in Slots :
    /\ calls[c].relayFailed
    /\ calls[c].pc = "notify"
    /\ Len(calls[c].relayed) = 2

C14_WitnessResult ==
  \E c \in Slots :
    /\ calls[c].relayFailed
    /\ C6_Case(calls[c])
    /\ Len(calls[c].relayed) = 2
    /\ calls[c].outcome.result = "content:a"

C15_Case(call) == call.pc # "idle" /\ call.request.method = "tools/call"

\* C15 as stated: the outbound params of a tools/call carry the token of the caller
\* whenever the caller supplied one, whatever its value, and a generated token only
\* when the caller supplied none.
C15_CallerTokenKept ==
  \A c \in Slots :
    LET call == calls[c]
        token == call.request.params.progressToken
    IN C15_Case(call) =>
         /\ token # Absent
         /\ call.inbound # Absent => token = call.inbound
         /\ token \in UUIDs => call.inbound = Absent

\* what the code does: a truthy token is kept, and undefined, "" and 0 are replaced
C15_TruthyTokenKept ==
  \A c \in Slots :
    LET call == calls[c]
        token == call.request.params.progressToken
    IN C15_Case(call) =>
         /\ call.inbound \notin {Absent, "", "#0"} => token = call.inbound
         /\ call.inbound \in {Absent, "", "#0"} => token \in UUIDs

\* the caller supplied the token 0 and the outbound request carries a generated one
C15_Witness ==
  \E c \in Slots :
    /\ C15_Case(calls[c])
    /\ calls[c].inbound = "#0"
    /\ calls[c].request.params.progressToken = "uuid-1"
    /\ calls[c].pc = "notify"

\* the list handler got an envelope without error
C16_Case(call) ==
  /\ call.pc = "done"
  /\ call.request.method = "tools/list"
  /\ call.envelope.kind = "object"
  /\ ~call.envelope.error.present

\* C16: a tools/list whose envelope has no error returns a list of tools: the list of
\* the result when the result has one (an empty one included), and the empty list
\* when the result has no tools or the envelope has no result.
C16_ToolsListNeverMissing ==
  \A c \in Slots :
    LET call == calls[c] IN
    C16_Case(call) =>
      /\ call.outcome.status = "returned"
      /\ call.outcome.shape = "tools"
      /\ call.outcome.tools =
           IF call.envelope.result = "tools:[t1,t2]" THEN <<"t1", "t2">> ELSE <<>>

\* the envelope has no result at all
C16_Witness ==
  \E c \in Slots :
    /\ C16_Case(calls[c])
    /\ calls[c].envelope.result = Absent
    /\ calls[c].outcome.shape = "tools"
    /\ calls[c].outcome.tools = <<>>

C16_WitnessRemoteList ==
  \E c \in Slots :
    /\ C16_Case(calls[c])
    /\ calls[c].outcome.tools = <<"t1", "t2">>

\* a message of the stream that is no notification and has another id than the request
IsStray(e, id) == e.kind = "object" /\ e.method # ProgressMethod /\ e.id # id

\* C17: a stream gives what it gives with its messages of another id taken out: such a
\* message is not relayed, is never the captured result, and the lines after it are
\* processed (a later notification is relayed, a later result of the request is
\* returned, and the call does not fail for it).
C17_StrayDiscarded ==
  \A c \in Slots :
    LET call == calls[c]
        id == call.request.id
        D == Delivered(call.response)
        Kept(e) == ~IsStray(e, id)
        K == Parseable(SelectSeq(D, Kept))
        T == Terminals(K, id)
    IN /\ ~IsStray(call.finalResult, id)
       /\ C6_Case(call) =>
            /\ call.relayed = ProgressIn(K)
            /\ ~IsStray(call.envelope, id)
            /\ T # {} => call.cause = "none" /\ call.envelope = K[Greatest(T)]
            /\ T = {} => call.cause = "nofinal"

C17_Witness ==
  \E c \in Slots :
    /\ C6_Case(calls[c])
    /\ Len(calls[c].response.sent) = 3
    /\ IsStray(calls[c].response.sent[1], calls[c].request.id)
    /\ IsProgress(calls[c].response.sent[2])
    /\ IsResult(calls[c].response.sent[3], calls[c].request.id)
    /\ ~calls[c].response.open
    /\ Len(calls[c].relayed) = 1
    /\ calls[c].cause = "none"
    /\ calls[c].outcome.result = "content:a"

\* C18 as stated: the envelope forwardRequest returns carries the id of the request,
\* on the single-document path as on the stream path.
C18_EnvelopeCarriesRequestId ==
  \A c \in Slots :
    LET call == calls[c] IN
    (call.pc = "done" /\ call.envelope.kind = "object") =>
      call.envelope.id = call.request.id

\* a single document with another id was returned and its result is the reply
C18_Witness ==
  \E c \in Slots :
    /\ calls[c].pc = "done"
    /\ SingleDocument(calls[c])
    /\ calls[c].request.method = "tools/call"
    /\ calls[c].cause = "none"
    /\ calls[c].envelope.id = calls[c].request.id + 1
    /\ calls[c].outcome.status = "returned"
    /\ calls[c].outcome.result = "content:a"

\* on the stream path the envelope returned has the id of the request
C18_StreamEnvelopeCarriesRequestId ==
  \A c \in Slots :
    LET call == calls[c] IN
    (call.pc = "done" /\ Streamed(call)) => call.envelope.id = call.request.id

\* the tokens of the calls that have not returned
OutstandingTokens ==
  {calls[d].request.params.progressToken : d \in {e \in Slots : Outstanding(calls[e])}}

\* C19 as stated: a notification is given to the local transport only when its
\* progressToken is the token of a call that has not returned; one with another token
\* is dropped.
C19_UnknownTokenDropped ==
  \A c \in Slots :
    LET call == calls[c] IN
    call.pc = "notify" =>
      TokenOf(call.relayed[Len(call.relayed)]) \in OutstandingTokens

\* a notification with the token tok-1 is with the local transport while the one call
\* outstanding has a generated token and the call that had tok-1 has returned
C19_Witness ==
  \E c \in Slots :
    /\ calls[c].pc = "notify"
    /\ calls[c].request.params.progressToken = "uuid-1"
    /\ TokenOf(calls[c].relayed[Len(calls[c].relayed)]) = "tok-1"
    /\ OutstandingTokens = {"uuid-1"}
    /\ requestIdCounter = 2
    /\ \A d \in Slots \ {c} : calls[d].pc = "done" /\ calls[d].inbound = "tok-1"
    /\ calls[c].caught = NoThrow

\* handleSSEStream got the reader of the body
ReaderAcquired(call) == call.response # NoResponse /\ Streamed(call) /\ call.response.hasBody

\* C20: the lock of the reader is held from the moment handleSSEStream gets the reader
\* to its exit and is released exactly once at the exit, whether a result is returned,
\* no terminal message came, a read was rejected or the timeout aborted the read; a
\* call that got no reader releases nothing.
C20_ReaderReleasedOnce ==
  \A c \in Slots :
    LET call == calls[c] IN
    /\ call.pc \in {"read", "notify"} => call.locked /\ call.releases = 0
    /\ call.locked => call.pc \in {"read", "notify"}
    /\ (call.pc = "done" /\ ReaderAcquired(call)) =>
         /\ ~call.locked
         /\ call.releases = 1
         /\ call.cause \in {"none", "nofinal", "readerror", "timeout"}
    /\ (call.pc = "done" /\ ~ReaderAcquired(call)) => call.releases = 0

\* the timeout aborted a read after two notifications had been relayed
C20_Witness ==
  \E c \in Slots :
    /\ calls[c].pc = "done"
    /\ ReaderAcquired(calls[c])
    /\ calls[c].cause = "timeout"
    /\ Len(calls[c].relayed) = 2
    /\ calls[c].releases = 1
    /\ ~calls[c].locked

C20_WitnessReturn ==
  \E c \in Slots :
    /\ calls[c].pc = "done" /\ ReaderAcquired(calls[c])
    /\ calls[c].cause = "none" /\ calls[c].releases = 1

\* validateServerUrl has returned for a well-formed URL with scheme http or https
HttpUrlValidated ==
  /\ proc.pc = "validated"
  /\ proc.url.wellFormed
  /\ proc.url.scheme \in {<<"h", "t", "t", "p">>, <<"h", "t", "t", "p", "s">>,
                          <<"H", "T", "T", "P", "S">>}

C21_Case ==
  HttpUrlValidated /\ proc.url.host.kind = "ipv4" /\ proc.url.host.octets[1] = 172

\* C21: an http or https URL whose host is the IPv4 address 172.b.c.d is rejected with
\* the internal/private reason when 16 <= b <= 31 and accepted (null) otherwise, for
\* every b from 0 to 255.
C21_Range172 ==
  C21_Case =>
    LET b == proc.url.host.octets[2] IN
    /\ (b >= 16 /\ b <= 31) =>
         proc.reason =
           [isNull |-> FALSE,
            text |-> "--server-url must not point to internal/private addresses"]
    /\ (b < 16 \/ b > 31) => proc.reason = [isNull |-> TRUE, text |-> ""]

C21_Witness ==
  /\ C21_Case
  /\ proc.url.host.octets = <<172, 31, 255, 1>>
  /\ ~proc.reason.isNull

C21_WitnessAccepted ==
  /\ C21_Case
  /\ proc.url.host.octets[2] \in {15, 32, 160, 2}
  /\ proc.reason.isNull

\* the hosts the claim lists, as written in the URL
ListedV4(o) ==
  \/ o \in {<<127, 0, 0, 1>>, <<0, 0, 0, 0>>, <<169, 254, 169, 254>>}
  \/ o[1] = 10
  \/ o[1] = 192 /\ o[2] = 168
  \/ o[1] = 172 /\ o[2] >= 16 /\ o[2] <= 31

ListedNames ==
  {<<"l", "o", "c", "a", "l", "h", "o", "s", "t">>,
   <<"L", "o", "c", "a", "l", "H", "O", "S", "T">>,
   <<"f", "o", "o", ".", "i", "n", "t", "e", "r", "n", "a", "l">>,
   <<"D", "B", ".", "I", "N", "T", "E", "R", "N", "A", "L">>}

ListedHost(host) ==
  \/ host.kind = "ipv4" /\ ListedV4(host.octets)
  \/ host.kind = "ipv6" /\ host.chars = <<":", ":", "1">>
  \/ host.kind = "name" /\ host.chars \in ListedNames

\* public hosts: a name that is none of the above and does not begin like a private
\* address, an address outside the listed ranges and outside 127.0.0.0/8 and 0.0.0.0/8
PublicHost(host) ==
  \/ host.kind = "name"
     /\ host.chars \in {<<"a", "p", "i", ".", "e", "x", "a", "m", "p", "l", "e", ".", "c", "o", "m">>,
                         <<"m", "c", "p", ".", "a", "i", "r", "f", "r", "a", "m", "e", ".", "a", "i">>,
                         <<"i", "n", "t", "e", "r", "n", "a", "l", ".", "i", "o">>}
  \/ host.kind = "ipv4" /\ ~ListedV4(host.octets) /\ host.octets[1] \notin {0, 127, 169}

C22_WitnessPublic ==
  /\ HttpUrlValidated
  /\ proc.url.host.octets = <<11, 0, 0, 1>>
  /\ proc.reason.isNull

\* where the scan of the arguments stands on --api-key or --server-url with a value
RECURSIVE FlagPositions(_, _)
FlagPositions(args, i) ==
  IF i > Len(args) THEN {}
  ELSE IF args[i].text \in {"--api-key", "--server-url"} /\ i < Len(args)
  THEN {i} \cup FlagPositions(args, i + 2)
  ELSE FlagPositions(args, i + 1)

\* the positions of the --server-url values that are no public http(s) URL
BadUrlPositions(args) ==
  {i \in FlagPositions(args, 1) :
     args[i].text = "--server-url" /\ args[i + 1] # CUSTOM_SERVER_URL}

\* parseCliArgs was called (by main or on its own) and help was not requested
C23_Case == proc.parsed.kind # "none" /\ ~IncludesHelp(proc.args)

C23_WitnessBlocked ==
  /\ proc.pc = "exited" /\ proc.exitCode = 1
  /\ Len(proc.args) = 4 /\ proc.args[4] = LOCALHOST_URL /\ proc.args[2] = VALID_API_KEY
  /\ proc.stderr = <<"Error: --server-url must not point to internal/private addresses">>

KeyPositions(args) == {i \in FlagPositions(args, 1) : args[i].text = "--api-key"}

\* parseCliArgs was called, help was not requested and no --api-key has a value other
\* than the empty string
C24_Case ==
  /\ proc.parsed.kind # "none"
  /\ ~IncludesHelp(proc.args)
  /\ \A i \in KeyPositions(proc.args) : proc.args[i + 1] = EmptyString

RequiredThrown ==
  /\ proc.parsed.kind = "throw"
  /\ proc.parsed.message = "Error: --api-key is required"
  /\ proc.pc = "exited" =>
       /\ proc.exitCode = 1
       /\ proc.stderr[1] = "Error: --api-key is required"
  /\ proc.bridges = 0

\* C24 as stated: without a non-empty key and without a help flag parseCliArgs throws
\* "Error: --api-key is required", main exits with 1 and constructs no bridge.
C24_RequiredAlwaysThrown == C24_Case => RequiredThrown

\* C24 as amended: the same when every --server-url value passes validation; when one
\* fails, the reason of that value is what is thrown, and main still exits with 1
\* without a bridge.  A key without the af_ prefix is accepted with a warning.
C24_RequiredUnlessUrlFails ==
  LET args == proc.args
      keys == KeyPositions(args)
      r == proc.parsed
  IN /\ (C24_Case /\ BadUrlPositions(args) = {}) => RequiredThrown
     /\ (C24_Case /\ BadUrlPositions(args) # {}) =>
          /\ r.kind = "throw"
          /\ r.message \in {"Error: --server-url must not point to internal/private addresses",
                             "Error: --server-url is not a valid URL"}
          /\ proc.pc = "exited" => proc.exitCode = 1
          /\ proc.bridges = 0
     /\ (/\ r.kind # "none" /\ ~IncludesHelp(args) /\ BadUrlPositions(args) = {}
         /\ keys # {}
         /\ args[Greatest(keys) + 1] \notin {EmptyString, VALID_API_KEY}) =>
          /\ r.kind = "ok"
          /\ r.apiKey = args[Greatest(keys) + 1]
          /\ proc.stderr # <<>> /\ proc.stderr[1] = "Warning: API key should start with 'af_'"
          /\ proc.pc # "parsed" => proc.pc = "running" /\ proc.apiKey = r.apiKey

\* --api-key is the last argument: main has exited with 1
C24_Witness ==
  /\ C24_Case
  /\ proc.args = <<Plain("--api-key")>>
  /\ proc.pc = "exited" /\ proc.exitCode = 1
  /\ Len(proc.stderr) = 3

C24_WitnessWarned ==
  /\ proc.pc = "running"
  /\ proc.apiKey = INVALID_API_KEY
  /\ calls[1].header = INVALID_API_KEY

\* the forward of a tools/call failed: the fetch was rejected, the status was not OK,
\* the body was malformed or too large, the remote reported a failure, or the body of
\* a 200 is a JSON value that is not an object
C25_Case(call) ==
  /\ call.pc = "done"
  /\ call.request.method = "tools/call"
  /\ \/ call.cause # "none"
     \/ call.envelope.error.present
     \/ call.envelope.kind \in {"null", "number", "array"}

ErrorReply(outcome) ==
  /\ outcome.status = "returned"
  /\ outcome.shape = "content"
  /\ Len(outcome.content) = 1
  /\ outcome.content[1].type = "text"
  /\ Len(outcome.content[1].text) >= 1
  /\ outcome.content[1].text[1] = "Error: "

\* C25 as stated: the tools/call handler never raises, and for every failure of the
\* forward, a 200 body that is null, a number or an array included, its reply is one
\* text block that begins with "Error: ".
C25_CallToolNeverRaises ==
  \A c \in Slots :
    /\ (calls[c].pc = "done" /\ calls[c].request.method = "tools/call") =>
         calls[c].outcome.status # "raised"
    /\ C25_Case(calls[c]) => ErrorReply(calls[c].outcome)

\* the body of a 200 was "null" and the tools/call handler raised the TypeError
C25_Witness ==
  \E c \in Slots :
    /\ C25_Case(calls[c])
    /\ calls[c].envelope.kind = "null"
    /\ calls[c].outcome.status = "raised"
    /\ calls[c].outcome.message = NullTypeError.text

\* the failures forwardRequest itself reports, and the failure envelopes of the remote,
\* do give the one-block reply
C25_ReportedFailuresReplied ==
  \A c \in Slots :
    (C25_Case(calls[c]) /\ calls[c].envelope.kind = "object") =>
      ErrorReply(calls[c].outcome)

\* a tools/call has returned and forwardRequest gave an envelope without an error
C26_Case(call) ==
  /\ call.pc = "done"
  /\ call.request.method = "tools/call"
  /\ call.envelope.kind = "object"
  /\ ~call.envelope.error.present

\* C26: the reply of a successful tools/call is the result of the terminal envelope and
\* nothing else: no block of its own, nothing rewritten; the terminal envelope is the
\* document the remote sent, or a data line of the stream with the id of the request.
C26_ResultPassedThrough ==
  \A c \in Slots :
    LET call == calls[c] IN
    C26_Case(call) =>
      /\ call.outcome.status = "returned"
      /\ call.outcome.shape = "result"
      /\ call.outcome.result = call.envelope.result
      /\ call.outcome.content = <<>>
      /\ call.outcome.tools = <<>>
      /\ IF IncludesEventStream(call.response.contentType)
         THEN \E k \in DOMAIN call.response.body :
                /\ k + 1 <= Len(call.response.body)
                /\ call.response.body[k] = DataMarker[1]
                /\ call.response.body[k + 1] = DataMarker[2]
                /\ k + 2 <= Len(call.response.body)
                /\ call.response.body[k + 2] = Stringify(call.envelope)
         ELSE call.response.body = <<Stringify(call.envelope)>>

\* a stream ended with a result for the request; the reply is that result
C26_Witness ==
  \E c \in Slots :
    /\ C26_Case(calls[c])
    /\ IncludesEventStream(calls[c].response.contentType)
    /\ calls[c].envelope.result = "content:b"
    /\ calls[c].outcome.result = "content:b"

\* a single document with a result; the reply is that result
C26_WitnessDocument ==
  \E c \in Slots :
    /\ C26_Case(calls[c])
    /\ ~IncludesEventStream(calls[c].response.contentType)
    /\ calls[c].outcome.result = "content:a"

\* C27: an invocation of a handler calls fetch exactly once, whatever becomes of the
\* call: the body it posts has jsonrpc "2.0" and the method of the handler (the list
\* handler sends no tool name, the call handler sends one), the URL is the configured
\* URL with nothing added to it, and the API key is the X-API-Key header.
C27_OnePost ==
  \A c \in Slots :
    LET call == calls[c] IN
    /\ call.pc = "idle" => call.posts = 0
    /\ call.pc # "idle" =>
         /\ call.posts = 1
         /\ call.request.jsonrpc = "2.0"
         /\ call.request.method \in {"tools/list", "tools/call"}
         /\ call.request.method = "tools/list" <=> call.request.params.name = Absent
         /\ call.request.method = "tools/call" <=> call.request.params.name \in ToolNames
         /\ call.target = proc.serverUrl
         /\ call.header = proc.apiKey
         /\ call.header # EmptyString

\* a call whose fetch failed has returned, and a call on the stream path has read to
\* the end: one POST each
C27_Witness ==
  \E c, d \in Slots :
    /\ calls[c].pc = "done" /\ calls[c].cause = "network" /\ calls[c].posts = 1
    /\ calls[d].pc = "done" /\ IncludesEventStream(calls[d].response.contentType)
    /\ calls[d].posts = 1
    /\ calls[c].request.method # calls[d].request.method

HasResult(envelope) == envelope.result # Absent
HasError(envelope) == envelope.error.present

\* C28 as stated: the envelope forwardRequest returns has exactly one of result and
\* error, whatever the remote sent, an envelope with both or with neither included.
C28_ExactlyOneOfResultAndError ==
  \A c \in Slots :
    (calls[c].pc = "done" /\ calls[c].envelope.kind = "object") =>
      HasResult(calls[c].envelope) # HasError(calls[c].envelope)

\* an envelope with neither field was returned as the remote sent it
C28_Witness ==
  \E c \in Slots :
    /\ calls[c].pc = "done"
    /\ calls[c].cause = "none"
    /\ calls[c].envelope = BareMsg(calls[c].request.id)
    /\ calls[c].response.body = <<Stringify(BareMsg(calls[c].request.id))>>

\* an envelope with both fields was returned as the remote sent it
C28_WitnessBoth ==
  \E c \in Slots :
    /\ calls[c].pc = "done"
    /\ calls[c].cause = "none"
    /\ HasResult(calls[c].envelope) /\ HasError(calls[c].envelope)

\* the envelopes the catch clause builds have an error and no result
C28_BuiltEnvelopesHaveErrorOnly ==
  \A c \in Slots :
    (calls[c].pc = "done" /\ calls[c].cause # "none") =>
      HasError(calls[c].envelope) /\ ~HasResult(calls[c].envelope)

\* a call has returned an envelope with an error
C29_Case(call) == call.pc = "done" /\ HasError(call.envelope)

\* C29 as stated: whatever the failure, the error text of the reply is cut to a fixed
\* bound: the text of an HTTP failure and the message of a failure envelope of the
\* remote alike are no longer than the longest HTTP failure text ("HTTP <status>: "
\* and SLICE_END characters), after "Error: " in a content block.
C29_ErrorTextBounded ==
  \A c \in Slots :
    C29_Case(calls[c]) =>
      /\ Len(calls[c].envelope.error.message) <= 3 + SLICE_END
      /\ Len(ReplyText(calls[c])) <= 4 + SLICE_END

\* the remote reported a failure with a message of 2 * SLICE_END characters and the
\* reply of the tools/call carries every one of them
C29_Witness ==
  \E c \in Slots :
    /\ C29_Case(calls[c])
    /\ calls[c].cause = "none"
    /\ calls[c].request.method = "tools/call"
    /\ calls[c].envelope.error.message = LongMessage
    /\ calls[c].outcome.content[1].text = <<"Error: ">> \o LongMessage

\* the same message is raised whole by the list handler
C29_WitnessRaised ==
  \E c \in Slots :
    /\ C29_Case(calls[c])
    /\ calls[c].request.method = "tools/list"
    /\ calls[c].outcome.status = "raised"
    /\ calls[c].outcome.message = LongMessage

\* the texts forwardRequest makes itself are bounded
C29_OwnFailuresBounded ==
  \A c \in Slots :
    (C29_Case(calls[c]) /\ calls[c].cause # "none") =>
      /\ Len(calls[c].envelope.error.message) <= 3 + SLICE_END
      /\ Len(ReplyText(calls[c])) <= 4 + SLICE_END

HasRequestId(e, id) == e.kind = "object" /\ e.jsonrpc = "2.0" /\ e.id = id
WithRequestId(events, id) == {i \in DOMAIN events : HasRequestId(events[i], id)}
ProgressWithoutId(e) == IsProgress(e) /\ e.id = 0

\* a stream was read to its close
C30_Case(call) ==
  /\ call.pc = "done"
  /\ Streamed(call) /\ call.response.hasBody
  /\ call.cause \in {"none", "nofinal"}

\* C30 as stated: the id decides.  A message with the id of the request is the
\* terminal result, the progress method or not, so the envelope returned is the last
\* message of the stream with that id; only the messages with the progress method and
\* no id are relayed.
C30_IdDecides ==
  \A c \in Slots :
    LET call == calls[c]
        D == Delivered(call.response)
        T == WithRequestId(D, call.request.id)
    IN C30_Case(call) =>
         /\ T # {} => call.cause = "none" /\ call.envelope = D[Greatest(T)]
         /\ call.relayed = ParamsOf(SelectSeq(D, ProgressWithoutId))

\* the only message of the stream had the progress method and the id of the request:
\* it was relayed and the call ended without a final result
C30_Witness ==
  \E c \in Slots :
    /\ C30_Case(calls[c])
    /\ calls[c].response.sent = <<ProgressWithId(calls[c].request.id, "tok-1 2/2")>>
    /\ calls[c].relayed = <<"tok-1 2/2">>
    /\ calls[c].cause = "nofinal"

\* what the loop does: the method decides.  Every message with the progress method is
\* relayed, with an id or without, and the envelope is the last of the other messages
\* with the id of the request.
C30_MethodDecides ==
  \A c \in Slots :
    LET call == calls[c]
        D == Delivered(call.response)
        T == Terminals(D, call.request.id)
    IN C30_Case(call) =>
         /\ T # {} => call.cause = "none" /\ call.envelope = D[Greatest(T)]
         /\ T = {} => call.cause = "nofinal"
         /\ call.relayed = ParamsOf(SelectSeq(D, IsProgress))

\* the body the remote sent is that of an event stream
StreamBody(r) == r.sent # <<>>

C31_WitnessAbsentType ==
  \E c \in Slots :
    /\ calls[c].pc = "done"
    /\ calls[c].response.status = 201
    /\ calls[c].response.contentType = ""
    /\ calls[c].cause = "none"
    /\ calls[c].envelope.result = "content:a"

\* the for loop over `lines` with every relay settled at once: what is relayed, what is
\* captured and how many lines failed to parse
RECURSIVE Drain(_, _, _, _, _)
Drain(lines, finalResult, id, failed, relayed) ==
  LET st == RunLines(lines, finalResult, id, failed) IN
  IF st.notify
  THEN Drain(st.pending, st.finalResult, id, st.failed, Append(relayed, st.params))
  ELSE [finalResult |-> st.finalResult, relayed |-> relayed, failed |-> st.failed,
        buffer |-> <<>>]

\* handleSSEStream given `text` as one chunk
OneChunk(text, id) ==
  LET lines == Split(text) IN
  [Drain(SubSeq(lines, 1, Len(lines) - 1), NoMessage, id, 0, <<>>)
   EXCEPT !.buffer = lines[Len(lines)]]

\* the part of the body read so far, whatever the chunks were
Consumed(call) == SubSeq(call.response.body, 1, Len(call.response.body) - Len(call.wire))

\* C32: what handleSSEStream has relayed, captured, logged and kept in its buffer
\* between two reads is what it has after the same text read as one chunk, wherever the
\* chunks were cut; so the notifications relayed and the envelope or failure returned
\* at the close are those of the whole body read as one chunk.
C32_ChunkingIrrelevant ==
  \A c \in Slots :
    LET call == calls[c]
        id == call.request.id
    IN /\ (call.pc = "read" /\ Streamed(call)) =>
            LET w == OneChunk(Consumed(call), id) IN
            /\ call.relayed = w.relayed
            /\ call.finalResult = w.finalResult
            /\ call.parseFailures = w.failed
            /\ call.buffer = w.buffer
       /\ C6_Case(call) =>
            LET w == OneChunk(call.response.body, id) IN
            /\ call.relayed = w.relayed
            /\ call.parseFailures = w.failed
            /\ call.envelope = IF w.finalResult.kind = "none"
                               THEN NoFinalResultEnvelope(id) ELSE w.finalResult
            /\ call.cause = IF w.finalResult.kind = "none" THEN "nofinal" ELSE "none"

\* a chunk ended in the middle of the "data: " marker of the second line, after the
\* notification of the first line was relayed
C32_Witness ==
  \E c \in Slots :
    /\ calls[c].pc = "read"
    /\ calls[c].buffer = <<DataMarker[1]>>
    /\ Len(calls[c].relayed) = 1
    /\ calls[c].wire # <<>>

\* a stream cut inside a line was read to its close and gave its result
C32_WitnessClosed ==
  \E c \in Slots :
    /\ C6_Case(calls[c])
    /\ calls[c].cause = "none"
    /\ Len(calls[c].relayed) = 2
    /\ Len(calls[c].response.sent) = 3

\* a stream was read to its close and its last line had no newline after it
C33_Case(call) ==
  /\ C6_Case(call)
  /\ call.response.open
  /\ call.response.sent # <<>>

\* C33: the line left in the buffer at the close is never processed: it is not
\* relayed, not captured and not logged as a parse failure, so the reply is that of
\* the stream without it, and a terminal message sent as that line alone ends the call
\* with "No final result received from SSE stream".
C33_UnterminatedLineDropped ==
  \A c \in Slots :
    LET call == calls[c]
        sent == call.response.sent
        D == SubSeq(sent, 1, Len(sent) - 1)
        P == Parseable(D)
        T == Terminals(P, call.request.id)
    IN C33_Case(call) =>
         /\ call.relayed = ProgressIn(P)
         /\ call.parseFailures = Len(D) - Len(P)
         /\ T # {} => call.cause = "none" /\ call.envelope = P[Greatest(T)]
         /\ T = {} =>
              /\ call.cause = "nofinal"
              /\ call.envelope = NoFinalResultEnvelope(call.request.id)
              /\ call.envelope.error.code = INTERNAL_ERROR

\* the terminal message was the last line, sent without a newline: no final result
C33_Witness ==
  \E c \in Slots :
    /\ C33_Case(calls[c])
    /\ Len(calls[c].response.sent) = 2
    /\ IsProgress(calls[c].response.sent[1])
    /\ IsResult(calls[c].response.sent[2], calls[c].request.id)
    /\ calls[c].cause = "nofinal"
    /\ Len(calls[c].relayed) = 1
    /\ calls[c].outcome.status = "returned"

\* a read was rejected, by a broken connection or by the timeout signal, after a
\* terminal message had been captured
C34_Case(call) ==
  /\ call.pc = "done"
  /\ call.cause \in {"readerror", "timeout"}
  /\ call.dropped.kind # "none"

\* C34: nothing is returned while the stream is open, a captured result included; when
\* a read is rejected after the capture the call returns the failure envelope with code
\* -32603 and the message of the rejection, and the reply has nothing of the captured
\* result.
C34_CapturedResultDiscarded ==
  \A c \in Slots :
    LET call == calls[c] IN
    /\ call.pc \in {"read", "notify"} =>
         call.envelope = NoMessage /\ call.outcome = NoOutcome
    /\ C34_Case(call) =>
         /\ call.envelope = ErrorEnvelope(call.request.id, ErrorMessage(call.caught))
         /\ call.envelope.error.code = INTERNAL_ERROR
         /\ call.envelope.result = Absent
         /\ call.outcome.result = Absent
         /\ call.outcome.tools = <<>>
         /\ call.request.method = "tools/list" => call.outcome.status = "raised"
         /\ call.request.method = "tools/call" =>
              call.outcome.content = <<TextBlock(<<"Error: ">> \o ErrorMessage(call.caught))>>

\* the result was captured, then the timeout signal fired before the close
C34_Witness ==
  \E c \in Slots :
    /\ C34_Case(calls[c])
    /\ calls[c].cause = "timeout"
    /\ calls[c].dropped = ResultMsg(calls[c].request.id, "content:a")
    /\ calls[c].envelope.error.code = INTERNAL_ERROR

\* the same with a broken connection
C34_WitnessReadError ==
  \E c \in Slots :
    /\ C34_Case(calls[c])
    /\ calls[c].cause = "readerror"
    /\ IsResult(calls[c].dropped, calls[c].request.id)

\* the envelope forwardRequest returns for a call, from the response of that call and
\* from where that call failed, and from nothing else
OwnEnvelope(call) ==
  IF call.cause # "none" THEN ErrorEnvelope(call.request.id, ErrorMessage(call.caught))
  ELSE IF Streamed(call) THEN ExpectedEnvelope(call)
  ELSE JSONparse(call.response.body).value

\* C35: the request id counter is all that a call leaves behind.  The configuration
\* of the bridge never changes; a handler that has returned keeps nothing of its
\* request, its response, its notifications or its reply; and the reply of a call is
\* the reply to its own response, whatever calls ran before it or run beside it.
C35_OnlyCounterShared ==
  /\ proc = Running
  /\ requestIdCounter = Len(issued)
  /\ \A c \in Slots :
       LET call == calls[c] IN
       /\ call.pc = "idle" => call = InitCall
       /\ call.pc # "idle" =>
            IsPrefix(call.relayed, ProgressIn(Parseable(call.response.sent)))
       /\ call.pc = "done" =>
            /\ call.envelope = OwnEnvelope(call)
            /\ call.outcome = HandlerReply(call.request.method, call.envelope)
            /\ (Streamed(call) /\ call.response.hasBody /\ ReadToClose(call)) =>
                 (call.cause = "nofinal" <=>
                    Terminals(Parseable(Delivered(call.response)), call.request.id) = {})

\* the third call, on a slot that served an earlier call, has returned the result of
\* its own stream, which also carried a result for an earlier request
C35_Witness ==
  \E c \in Slots :
    /\ calls[c].pc = "done"
    /\ calls[c].request.id = 3
    /\ \A d \in Slots \ {c} : calls[d].pc = "idle"
    /\ Len(calls[c].response.sent) = 2
    /\ calls[c].response.sent[1].id \in {1, 2}
    /\ calls[c].envelope = ResultMsg(3, "content:a")

\* the lines of a body, each ended by a newline
BodyLines(r) == LET lines == Split(r.body) IN SubSeq(lines, 1, Len(lines) - 1)

IgnoredLine(line) ==
  \/ Len(line) < 2
  \/ SubSeq(line, 1, 2) # DataMarker
  \/ \A i \in 3..Len(line) : line[i] = SP

\* C36: blank lines, event and comment lines and data lines with an empty payload
\* count for nothing: none is parsed or logged as a parse failure, and what is relayed
\* and returned is what the data lines with a payload give, in their order.
C36_OtherLinesIgnored ==
  \A c \in Slots :
    LET call == calls[c]
        sent == call.response.sent
        T == Terminals(sent, call.request.id)
    IN /\ call.parseFailures = 0
       /\ C6_Case(call) =>
            /\ call.relayed = ProgressIn(sent)
            /\ T # {} => call.cause = "none" /\ call.envelope = sent[Greatest(T)]
            /\ T = {} => call.cause = "nofinal"

\* an event line, a data line with an empty payload and a blank line came with the
\* result: the result is returned
C36_Witness ==
  \E c \in Slots :
    /\ C6_Case(calls[c])
    /\ \E i, j \in DOMAIN BodyLines(calls[c].response) :
         /\ i # j
         /\ BodyLines(calls[c].response)[i] = DataMarker
         /\ BodyLines(calls[c].response)[j] \in {<<>>, <<"event: message">>}
    /\ calls[c].response.sent = <<ResultMsg(calls[c].request.id, "content:a")>>
    /\ calls[c].outcome.result = "content:a"

\* only lines that are ignored: no final result, nothing relayed, nothing logged
C36_WitnessNothing ==
  \E c \in Slots :
    /\ C6_Case(calls[c])
    /\ Len(BodyLines(calls[c].response)) = 3
    /\ \A i \in 1..3 : IgnoredLine(BodyLines(calls[c].response)[i])
    /\ calls[c].cause = "nofinal"
    /\ calls[c].relayed = <<>>

HttpScheme(url) ==
  ToLowerCase(url.scheme) \in {<<"h", "t", "t", "p">>, <<"h", "t", "t", "p", "s">>}

\* C37: the reason is that of the first check that fails, in the order malformed,
\* scheme, host: "not a valid URL" exactly for the strings that are no URL, "must use
\* http or https" exactly for the URLs of another scheme, a blocked host or not, and the
\* internal/private reason only for URLs of the http or https scheme.
C37_FirstFailingCheck ==
  proc.pc = "validated" =>
    /\ proc.reason = NotAValidUrl <=> ~proc.url.wellFormed
    /\ proc.reason = MustUseHttp <=> (proc.url.wellFormed /\ ~HttpScheme(proc.url))
    /\ proc.reason = MustNotBeInternal => (proc.url.wellFormed /\ HttpScheme(proc.url))
    /\ (proc.url.wellFormed /\ ~HttpScheme(proc.url) /\ ListedHost(proc.url.host)) =>
         proc.reason = MustUseHttp

\* ftp://localhost: the scheme is what is reported
C37_Witness ==
  /\ proc.pc = "validated"
  /\ proc.url.scheme = <<"f", "t", "p">>
  /\ proc.url.host = NameHost(<<"l", "o", "c", "a", "l", "h", "o", "s", "t">>)
  /\ proc.reason = MustUseHttp

\* http://10.0.0.1: the host is what is reported
C37_WitnessHost ==
  /\ proc.pc = "validated"
  /\ proc.url.scheme = <<"h", "t", "t", "p">>
  /\ proc.url.host = Ipv4Host(<<10, 0, 0, 1>>)
  /\ proc.reason = MustNotBeInternal

\* main has run on an argument list with --help or -h in it
C38_Case == proc.pc \in {"exited", "running"} /\ IncludesHelp(proc.args)

\* C38: with --help or -h anywhere among the arguments main prints the usage and exits
\* with 0 and that is all: the other arguments are not parsed, nothing is written to
\* stderr and no bridge is started, a missing key or a bad --server-url value
\* notwithstanding.
C38_HelpFirst ==
  C38_Case =>
    /\ proc.pc = "exited"
    /\ proc.exitCode = 0
    /\ proc.stdout = <<USAGE>>
    /\ proc.stderr = <<>>
    /\ proc.parsed = NotParsed
    /\ proc.bridges = 0
    /\ \A c \in Slots : calls[c] = InitCall

\* --server-url http://localhost --help, no key: usage and exit 0
C38_Witness ==
  /\ C38_Case
  /\ proc.args = <<Plain("--server-url"), LOCALHOST_URL, Plain("--help")>>
  /\ proc.exitCode = 0

\* -h given as the value of --api-key
C38_WitnessAsValue ==
  /\ C38_Case
  /\ proc.args = <<Plain("--api-key"), Plain("-h")>>
  /\ proc.exitCode = 0

\* forwardRequest has returned an envelope it made itself
C39_Case(call) == call.pc = "done" /\ call.cause # "none"

\* C39: a failure that forwardRequest turns into an envelope is written to stderr once,
\* as "[Airframe MCP] Error: " and the message of the envelope; an envelope of the
\* remote is not logged by the catch clause; and nothing is written to stdout, where
\* the replies go.
C39_FailureLoggedOnce ==
  /\ proc.stdout = <<>>
  /\ \A c \in Slots :
       LET call == calls[c] IN
       /\ C39_Case(call) =>
            /\ call.envelope.error.present
            /\ call.logged = <<LOG_PREFIX \o call.envelope.error.message>>
       /\ ~C39_Case(call) => call.logged = <<>>

\* an HTTP failure with a long body: the line logged has the text cut as in the envelope
C39_Witness ==
  \E c \in Slots :
    /\ C39_Case(calls[c])
    /\ calls[c].cause = "http"
    /\ Len(calls[c].response.body) = SLICE_END + 1
    /\ Len(calls[c].logged) = 1
    /\ Len(calls[c].logged[1]) = 1 + 3 + SLICE_END

\* a value that is no Error was thrown: the line has its string form
C39_WitnessNonError ==
  \E c \in Slots :
    /\ C39_Case(calls[c])
    /\ ~calls[c].caught.isError
    /\ calls[c].logged = <<LOG_PREFIX \o calls[c].caught.text>>

====
